---- MODULE Spec2Model ----
(***************************************************************************)
(* A model of riskfolio/src/AuxFunctions.py: the cluster-count selectors   *)
(* (two_diff_gap_stat, std_silhouette_score), the codependence/distance    *)
(* dispatcher (codep_dist) and the RMT denoising chain (denoiseCov).       *)
(*                                                                         *)
(* Real numbers are kept exact where the code's result is rational and in  *)
(* fixed point (FP units per 1.0, square roots rounded down) otherwise;    *)
(* the floating-point specials the code can produce (-inf, NaN) are        *)
(* separate tagged values.                                                 *)
(***************************************************************************)
EXTENDS Integers, Sequences, FiniteSets, TLC

VARIABLES
    \* ---- two_diff_gap_stat / std_silhouette_score
    method,           \* which selector is called: "gap" or "silhouette"
    n_assets,         \* dist.shape[0]
    clustering,       \* the linkage matrix Z: rows [l, r, d]
    max_k,            \* argument max_k
    flag,             \* hr.is_monotonic(clustering)
    cluster_lvls,     \* the levels kept after drop_duplicates (label columns)
    level_k,          \* their column names
    cluster_k,        \* their numbers of distinct labels
    stat_list,        \* W_list (gap) or scores_list (silhouette)
    k_index,          \* index of the winning level
    k,                \* local k: chosen count, then realized count in the loop
    j,                \* local j of the re-cut loop
    clustering_inds,  \* the assignment
    \* ---- codep_dist
    codependence,     \* argument codependence
    returns,          \* argument returns: one row per sample
    custom_cov,       \* argument custom_cov
    bins_info,        \* argument bins_info
    alpha_tail,       \* argument alpha_tail, in hundredths
    ext,              \* what the external estimator called returned
    codep,            \* local codep
    dist,             \* local dist
    \* ---- denoiseCov / denoisedCorr
    entry,            \* the function called: "denoiseCov" or "denoisedCorr"
    kind,             \* argument kind
    q,                \* argument q
    detone,           \* argument detone
    mkt_comp,         \* argument mkt_comp
    alpha,            \* argument alpha, a fraction <<num, den>>
    eigh_w,           \* the eigenvalues np.linalg.eigh returns
    eVal,             \* diagonal of eVal, in units of 1/EigDen
    eVec,             \* eVec: for each column, the column of eigh it is
    out,              \* what minimize returned: its success and its x[0]
    var,              \* local var, a fraction
    eMax,             \* local eMax, a fraction
    nFacts,           \* local / argument nFacts
    eVal_,            \* local eVal_ of denoisedCorr: <<numerators, den>>
    corr,             \* local corr, as a term over the matrix cov
    cov_,             \* local cov_, as a term
    \* ---- a direct call of dcorr or numBins
    fn,               \* the function called
    args,             \* its arguments, as the caller passed them
    locals,           \* its local variables, by name
    \* ---- all
    called,           \* the matrix functions called, in order
    err,              \* the exception raised, "" if none
    pc                \* position in the function being run

clusterVars == <<method, n_assets, clustering, max_k, flag, cluster_lvls,
                 level_k, cluster_k, stat_list, k_index, k, j,
                 clustering_inds>>

codepVars == <<codependence, returns, custom_cov, bins_info, alpha_tail, ext,
               codep, dist>>

denoiseVars == <<entry, kind, q, detone, mkt_comp, alpha, eigh_w, eVal, eVec,
                 out, var, eMax, nFacts, eVal_, corr, cov_>>

auxVars == <<fn, args, locals>>

vars == <<clusterVars, codepVars, denoiseVars, auxVars, called, err, pc>>

-----------------------------------------------------------------------------
(* Bounds of the model *)

\* largest number of assets of a distance matrix / linkage
MaxN == 4
\* largest max_k argument
MaxK == 2
\* largest coordinate of an asset on the line the distances are taken on
MaxPos == 1
\* largest abstract silhouette score
MaxScore == 1
\* largest target count the re-cut loop is followed to
MaxJ == 6

\* fixed-point unit: values are held in 1/FP
FP == 100

-----------------------------------------------------------------------------
(* Small helpers *)

Min(S) == CHOOSE x \in S : \A y \in S : x <= y
Max(S) == CHOOSE x \in S : \A y \in S : x >= y
Abs(x) == IF x < 0 THEN -x ELSE x

\* f itself, as a table: TLC evaluates [x \in S |-> e] anew at each
\* application, and merging it with the empty function tabulates it
Eager(f) == f @@ <<>>

RECURSIVE SumSeq(_)
SumSeq(s) == IF s = <<>> THEN 0 ELSE Head(s) + SumSeq(Tail(s))

RECURSIVE SqrtIter(_, _, _)
\* the largest r in lo..hi with r*r <= x
SqrtIter(x, lo, hi) ==
    IF lo >= hi THEN lo
    ELSE LET mid == (lo + hi + 1) \div 2
         IN IF mid * mid <= x THEN SqrtIter(x, mid, hi)
                              ELSE SqrtIter(x, lo, mid - 1)

\* floor of the square root of x >= 0
ISqrt(x) == SqrtIter(x, 0, IF x < 46340 THEN x ELSE 46340)

\* floating-point values: a finite fixed-point number, -inf or NaN
Num(v) == <<"num", v>>
NegInf == <<"-inf", 0>>
NaN == <<"nan", 0>>
IsNum(x) == x[1] = "num"
IsNaN(x) == x[1] = "nan"

\* a < b on floating-point values (false when either is NaN)
FLess(a, b) ==
    /\ ~IsNaN(a) /\ ~IsNaN(b)
    /\ \/ a = NegInf /\ b # NegInf
       \/ IsNum(a) /\ IsNum(b) /\ a[2] < b[2]

\* W2 + W0 - 2*W1 on floating-point values (no +inf arises in W_list)
GapOf(w0, w1, w2) ==
    IF IsNaN(w0) \/ IsNaN(w1) \/ IsNaN(w2) THEN NaN
    ELSE IF w1 = NegInf THEN NaN
    ELSE IF w0 = NegInf \/ w2 = NegInf THEN NegInf
    ELSE Num(w2[2] + w0[2] - 2 * w1[2])

\* pandas Series.idxmax(): first index (0-based) of the largest non-NaN
\* value; -1 when every value is NaN (idxmax raises or yields NaN, and
\* int() then raises)
IdxMax(s) ==
    LET ok == {i \in 1..Len(s) : ~IsNaN(s[i])}
    IN IF ok = {} THEN -1
       ELSE (CHOOSE i \in ok :
                /\ \A m \in ok : ~FLess(s[i], s[m])
                /\ \A m \in ok : m < i => FLess(s[m], s[i])) - 1

\* mutant: the labels are returned as they are, without the recoding
NpUniqueInverse_NoRecode(x) == x

\* np.unique(x, return_inverse=True)[1]: dense rank of each label
NpUniqueInverse(x) ==
    Eager([a \in DOMAIN x |->
              Cardinality({x[b] : b \in {c \in DOMAIN x : x[c] < x[a]}})])

\* len(np.unique(x)) / Series.nunique()
NUnique(x) == Cardinality({x[a] : a \in DOMAIN x})

-----------------------------------------------------------------------------
(* Linkage matrices and the scipy.cluster.hierarchy calls made on them.     *)
(* A linkage over n observations is a sequence of n-1 rows [l, r, d]: row   *)
(* i (0-based) merges clusters l and r at height d into cluster n + i.      *)

\* row of a cluster id >= n
RowOf(n, Z, id) == Z[id - n + 1]

RECURSIVE LinkagesFrom(_, _, _)
\* the rows i..n-2 of every valid linkage whose unmerged ids are avail
LinkagesFrom(n, i, avail) ==
    IF i = n - 1 THEN {<<>>}
    ELSE UNION {
           { <<[l |-> p[1], r |-> p[2], d |-> p[3]]>> \o rest :
               rest \in LinkagesFrom(n, i + 1,
                                     (avail \ {p[1], p[2]}) \cup {n + i}) } :
           p \in {tr \in avail \X avail \X (1..(n - 1)) : tr[1] < tr[2]} }

\* every valid linkage over n observations, monotonic or not.  The merge
\* distances are only ever compared with each other, so they are taken as
\* ranks: the distances used are 1..m for some m, in every order
Linkages(n) ==
    {Z \in LinkagesFrom(n, 0, 0..(n - 1)) :
        {Z[i].d : i \in 1..Len(Z)} = 1..Max({Z[i].d : i \in 1..Len(Z)})}

\* hr.is_monotonic(Z): (Z[1:, 2] >= Z[:-1, 2]).all()
IsMonotonic(Z) == \A i \in 1..(Len(Z) - 1) : Z[i + 1].d >= Z[i].d

RECURSIVE NodeLeaves(_, _, _)
\* ClusterNode.pre_order(): the observations below a cluster id
NodeLeaves(n, Z, id) ==
    IF id < n THEN {id}
    ELSE NodeLeaves(n, Z, RowOf(n, Z, id).l)
            \cup NodeLeaves(n, Z, RowOf(n, Z, id).r)

\* bisect.insort_left(nodes, node), nodes ordered by merge distance
InsortLeft(n, Z, nodes, node) ==
    LET pos == Cardinality({i \in 1..Len(nodes) :
                   RowOf(n, Z, nodes[i]).d < RowOf(n, Z, node).d})
    IN SubSeq(nodes, 1, pos) \o <<node>> \o SubSeq(nodes, pos + 1, Len(nodes))

RECURSIVE OrderClusterTreeFrom(_, _, _, _)
OrderClusterTreeFrom(n, Z, queue, nodes) ==
    IF queue = <<>> THEN nodes
    ELSE LET node == Head(queue)
         IN IF node < n
            THEN OrderClusterTreeFrom(n, Z, Tail(queue), nodes)
            ELSE OrderClusterTreeFrom(n, Z,
                     Tail(queue) \o <<RowOf(n, Z, node).r, RowOf(n, Z, node).l>>,
                     InsortLeft(n, Z, nodes, node))

\* hierarchy._order_cluster_tree(Z): the non-leaf nodes, breadth first from
\* the root, each inserted by insort_left on its distance
OrderClusterTree(n, Z) == OrderClusterTreeFrom(n, Z, <<2 * n - 2>>, <<>>)

\* one step of cut_tree's loop: the node's observations take the smallest
\* of their labels, labels above the largest of them drop by one
CutStep(n, Z, last_group, node) ==
    LET idx == NodeLeaves(n, Z, node)
        mn == Min({last_group[x] : x \in idx})
        mx == Max({last_group[x] : x \in idx})
    IN Eager([x \in 0..(n - 1) |->
                 (IF x \in idx THEN mn ELSE last_group[x])
                   - (IF last_group[x] > mx THEN 1 ELSE 0)])

RECURSIVE CutGroups(_, _, _, _, _)
CutGroups(n, Z, nodes, i, last_group) ==
    IF i > Len(nodes) THEN <<>>
    ELSE LET this_group == CutStep(n, Z, last_group, nodes[i])
         IN <<this_group>> \o CutGroups(n, Z, nodes, i + 1, this_group)

\* hr.cut_tree(Z): column c (1-based here) is the labelling after c-1 merges
CutTree(n, Z) ==
    <<Eager([x \in 0..(n - 1) |-> x])>>
        \o CutGroups(n, Z, OrderClusterTree(n, Z), 1,
                     Eager([x \in 0..(n - 1) |-> x]))

RECURSIVE MaxDist(_, _, _)
\* get_max_dist_for_each_cluster: the largest merge distance at or below id
MaxDist(n, Z, id) ==
    IF id < n THEN 0
    ELSE Max({RowOf(n, Z, id).d, MaxDist(n, Z, RowOf(n, Z, id).l),
              MaxDist(n, Z, RowOf(n, Z, id).r)})

RECURSIVE CountClusters(_, _, _, _)
\* the flat clusters below id when every node with MaxDist <= thresh forms one
CountClusters(n, Z, thresh, id) ==
    IF id < n THEN 1
    ELSE IF MaxDist(n, Z, id) <= thresh THEN 1
    ELSE CountClusters(n, Z, thresh, RowOf(n, Z, id).l)
           + CountClusters(n, Z, thresh, RowOf(n, Z, id).r)

RECURSIVE MaxclustIdx(_, _, _, _, _)
\* cluster_maxclust_monocrit's bisection over the row indices (0-based)
MaxclustIdx(n, Z, max_nc, lower_idx, upper_idx) ==
    IF upper_idx - lower_idx <= 1 THEN upper_idx
    ELSE LET i == (lower_idx + upper_idx) \div 2
         IN IF CountClusters(n, Z, MaxDist(n, Z, n + i), 2 * n - 2) > max_nc
            THEN MaxclustIdx(n, Z, max_nc, i, upper_idx)
            ELSE MaxclustIdx(n, Z, max_nc, lower_idx, i)

RECURSIVE Monocrit(_, _, _, _, _)
\* cluster_monocrit below id, c clusters numbered so far: non-leaf children
\* first (left, then right), then the leaf children
Monocrit(n, Z, cutoff, id, c) ==
    IF MaxDist(n, Z, id) <= cutoff
    THEN [T |-> [x \in NodeLeaves(n, Z, id) |-> c + 1], c |-> c + 1]
    ELSE LET lc == RowOf(n, Z, id).l
             rc == RowOf(n, Z, id).r
             e == [T |-> <<>>, c |-> c]
             a == IF lc >= n THEN Monocrit(n, Z, cutoff, lc, c) ELSE e
             b0 == IF rc >= n THEN Monocrit(n, Z, cutoff, rc, a.c)
                              ELSE [T |-> <<>>, c |-> a.c]
             c1 == IF lc < n THEN b0.c + 1 ELSE b0.c
             c2 == IF rc < n THEN c1 + 1 ELSE c1
             tl == IF lc < n THEN (lc :> c1) ELSE <<>>
             tr == IF rc < n THEN (rc :> c2) ELSE <<>>
         IN [T |-> a.T @@ b0.T @@ tl @@ tr, c |-> c2]

\* hr.fcluster(Z, t, criterion="maxclust") for n >= 3 observations: labels
\* from 1.  (With n = 2 the bisection does not run and the cut-off is read
\* past the n-1 computed distances; the selectors only call fcluster on a
\* non-monotonic linkage, which has at least two rows.)
FclusterMaxclust(n, Z, t) ==
    LET upper_idx == MaxclustIdx(n, Z, t, 0, n - 1)
        T == Monocrit(n, Z, MaxDist(n, Z, n + upper_idx), 2 * n - 2, 0).T
    IN Eager([x \in 0..(n - 1) |-> T[x]])


-----------------------------------------------------------------------------
(* two_diff_gap_stat and std_silhouette_score *)

\* the distance matrices tried: the assets are points of a line, numbered
\* from left to right with the first at 0, and dist is the distance between
\* the points
Positions(n) ==
    {pos \in [0..(n - 1) -> 0..MaxPos] :
        /\ pos[0] = 0
        /\ \A a \in 0..(n - 2) : pos[a] <= pos[a + 1]}

DistOf(pos) ==
    Eager([a \in DOMAIN pos |->
              Eager([b \in DOMAIN pos |-> Abs(pos[a] - pos[b])])])

\* the silhouette scores tried, b.mean() / b.std() of sklearn's
\* silhouette_samples: any finite value (only their order is used) or NaN
ScoreVals == {NaN} \cup {Num(v) : v \in 0..MaxScore}

\* the columns of cut_tree reversed and renamed: level i (1-based here,
\* column i-1 of the code) is cut_tree's column n-i, so level 1 is one cluster
ReversedLevels(cut) == [i \in 1..Len(cut) |-> cut[Len(cut) + 1 - i]]

\* the fix for non-monotonic linkages: every column is recoded by np.unique
RelabelledLevels(rev, monotonic) ==
    IF monotonic THEN rev
    ELSE Eager([i \in 1..Len(rev) |-> NpUniqueInverse(rev[i])])

\* cluster_lvls.T.drop_duplicates().T: the columns (1-based) that are kept
KeptColumns(lvls) ==
    {i \in 1..Len(lvls) : \A m \in 1..(i - 1) : lvls[m] # lvls[i]}

RECURSIVE SortedSeq(_)
SortedSeq(S) == IF S = {} THEN <<>>
                ELSE <<Min(S)>> \o SortedSeq(S \ {Min(S)})

\* cluster_k.index(v), 1-based here
IndexOf(s, v) == Min({i \in 1..Len(s) : s[i] = v})

\* a loop without its break: no count is over the limit
OverLimit_Never(kk, mk, n, slack) == FALSE

\* k > min(max_k, np.sqrt(n)) + slack, on integers
OverLimit(kk, mk, n, slack) ==
    \/ kk - slack > mk
    \/ kk - slack > 0 /\ (kk - slack) * (kk - slack) > n

RECURSIVE PdistFrom(_, _, _)
\* the entries dmat[a][b], a < b both in members, row by row
PdistFrom(dmat, members, pairs) ==
    IF pairs = {} THEN <<>>
    ELSE LET p == CHOOSE pp \in pairs :
                     \A r \in pairs : pp[1] < r[1] \/ (pp[1] = r[1] /\ pp[2] <= r[2])
         IN <<dmat[p[1]][p[2]]>> \o PdistFrom(dmat, members, pairs \ {p})

\* squareform(cluster_dist, checks=False): the distances above the diagonal
ClusterPdist(dmat, members) ==
    PdistFrom(dmat, members, {pp \in members \X members : pp[1] < pp[2]})

\* ndarray.std() of a non-empty vector, in fixed point
StdOf(v) ==
    ISqrt((Len(v) * SumSeq([i \in 1..Len(v) |-> v[i] * v[i]])
              - SumSeq(v) * SumSeq(v)) * FP * FP) \div Len(v)

\* D of one cluster; a cluster of one asset has no pairwise distance and
\* adds nothing to D_list
ClusterD(cluster_pdist) ==
    IF Len(cluster_pdist) # 0 THEN StdOf(cluster_pdist) ELSE 0

RECURSIVE SumD(_, _, _)
SumD(dmat, level, i) ==
    IF i < 0 THEN 0
    ELSE ClusterD(ClusterPdist(dmat, {x \in DOMAIN level : level[x] = i}))
           + SumD(dmat, level, i - 1)

\* W_k of one level: the sum over its clusters of the standard deviation
\* of the pairwise distances within the cluster
WithinDissimilarity(dmat, level) ==
    SumD(dmat, level, Max({level[x] : x \in DOMAIN level}))

RECURSIVE AllW(_, _, _)
\* W_k of each kept level, from level i on
AllW(dmat, lvls, i) ==
    IF i > Len(lvls) THEN <<>>
    ELSE <<Num(WithinDissimilarity(dmat, lvls[i]))>> \o AllW(dmat, lvls, i + 1)

RECURSIVE StatLoop(_, _, _, _, _, _)
\* the loop "for k in cluster_k": -inf for k = 1, break above the limit,
\* else the statistic of the first level with k clusters
StatLoop(ck, i, mk, n, slack, statOf) ==
    IF i > Len(ck) THEN <<>>
    ELSE IF ck[i] = 1
         THEN <<NegInf>> \o StatLoop(ck, i + 1, mk, n, slack, statOf)
    ELSE IF OverLimit(ck[i], mk, n, slack) THEN <<>>
    ELSE <<statOf[IndexOf(ck, ck[i])]>>
            \o StatLoop(ck, i + 1, mk, n, slack, statOf)

RECURSIVE GapsFrom(_, _)
GapsFrom(W, i) ==
    IF i > Len(W) THEN <<>>
    ELSE <<IF i + 2 <= Len(W) THEN GapOf(W[i], W[i + 1], W[i + 2]) ELSE NaN>>
            \o GapsFrom(W, i + 1)

\* gaps = W_list.shift(-2) + W_list - 2 * W_list.shift(-1)
Gaps(W) == GapsFrom(W, 1)

RECURSIVE SeqOfCounts(_, _)
SeqOfCounts(lvls, i) ==
    IF i > Len(lvls) THEN <<>>
    ELSE <<NUnique(lvls[i])>> \o SeqOfCounts(lvls, i + 1)

RECURSIVE Pick(_, _, _)
\* the entries of s at the positions idx[i..]
Pick(s, idx, i) ==
    IF i > Len(idx) THEN <<>> ELSE <<s[idx[i]]>> \o Pick(s, idx, i + 1)

\* the kept levels, their column names and their numbers of clusters
SetKept(lvls, kept) ==
    /\ cluster_lvls' = lvls
    /\ level_k' = [i \in 1..Len(kept) |-> kept[i] - 1]
    /\ cluster_k' = SeqOfCounts(lvls, 1)

SetLevels(lvls, kept) == SetKept(Pick(lvls, kept, 1), kept)

\* cluster_lvls.T.drop_duplicates().T of the levels lvls
DropDuplicates(lvls) == SetLevels(lvls, SortedSeq(KeptColumns(lvls)))

\* the start of both selectors: the monotonicity flag, the cluster levels
\* with one cluster first, recoded if the linkage is not monotonic, without
\* duplicate columns, and the number of clusters of each
\* hr.is_monotonic(clustering) validates its argument with
\* is_valid_linkage(throw=True): an empty linkage is a ValueError
IsValidLinkage(Z) == Len(Z) > 0

\* a constructor that takes any index
IndexFits_Any(n, Z) == TRUE

\* pd.DataFrame(hr.cut_tree(clustering), index=dist.columns): the rows of
\* cut_tree, one per observation of the linkage, must be as many as the
\* columns of dist, or the constructor raises ValueError
IndexFits(n, Z) == Len(Z) + 1 = n

\* the exception type both libraries raise for their argument
LibraryError == "ValueError"

\* the selectors on a linkage or a distance matrix the library calls of
\* their first statements reject: the exception leaves the function
RaiseOnInput ==
    /\ pc = "call"
    /\ ~(IsValidLinkage(clustering) /\ IndexFits(n_assets, clustering))
    /\ err' = LibraryError
    /\ pc' = "error"
    /\ UNCHANGED <<clusterVars, auxVars, codepVars, denoiseVars, called>>

CutLevels ==
    /\ pc = "call"
    /\ IsValidLinkage(clustering) /\ IndexFits(n_assets, clustering)
    /\ flag' = IsMonotonic(clustering)
    /\ DropDuplicates(RelabelledLevels(
                          ReversedLevels(CutTree(n_assets, clustering)),
                          IsMonotonic(clustering)))
    /\ pc' = "levels"
    /\ UNCHANGED <<method, n_assets, clustering, max_k, stat_list, k_index,
                   k, j, clustering_inds, auxVars, codepVars, denoiseVars, called,
                   err>>

\* the first cut of the non-monotonic branch
FirstCut(inds) ==
    /\ clustering_inds' = inds
    /\ j' = NUnique(inds)
    /\ pc' = "recut"

\* the part the two selectors share once the statistics are known: the
\* winning level, then the assignment (monotonic) or the first cut
SelectFrom(stats, best) ==
    /\ stat_list' = stats
    /\ k_index' = best
    /\ IF best = -1
       THEN /\ pc' = "error"
            /\ err' = "ValueError"
            /\ UNCHANGED <<k, j, clustering_inds>>
       ELSE /\ k' = cluster_k[best + 1]
            /\ UNCHANGED err
            /\ IF flag
               THEN /\ clustering_inds' = cluster_lvls[best + 1]
                    /\ pc' = "done"
                    /\ UNCHANGED j
               ELSE FirstCut(FclusterMaxclust(n_assets, clustering,
                                              cluster_k[best + 1]))
    /\ UNCHANGED <<method, n_assets, clustering, max_k, flag, cluster_lvls,
                   level_k, cluster_k, auxVars, codepVars, denoiseVars, called>>

\* W_list, then the level with the largest second difference
SelectGap(W_list) == SelectFrom(W_list, IdxMax(Gaps(W_list)))

\* two_diff_gap_stat from the statistics loop to the first cut
TwoDiffGapStat ==
    /\ pc = "levels" /\ method = "gap"
    /\ \E pos \in Positions(n_assets) :
         SelectGap(StatLoop(cluster_k, 1, max_k, n_assets, 2,
                            AllW(DistOf(pos), cluster_lvls, 1)))

\* scores_list, then the level with the largest score
SelectSilhouette(scores_list) == SelectFrom(scores_list, IdxMax(scores_list))

\* the levels silhouette_samples can be called on: those within the limit
ScoredLevels ==
    {i \in 1..Len(cluster_k) :
        cluster_k[i] # 1 /\ ~OverLimit(cluster_k[i], max_k, n_assets, 0)}

\* std_silhouette_score from the statistics loop to the first cut
StdSilhouetteScore ==
    /\ pc = "levels" /\ method = "silhouette"
    /\ \E sc \in [ScoredLevels -> ScoreVals] :
         SelectSilhouette(StatLoop(cluster_k, 1, max_k, n_assets, 0, sc))

\* one turn of "while k != j": the target j goes up by one, the tree is cut
\* again and k becomes the number of clusters the cut gave
ReCut ==
    /\ pc = "recut" /\ k # j
    /\ j < MaxJ
    /\ j' = j + 1
    /\ clustering_inds' = FclusterMaxclust(n_assets, clustering, j + 1)
    /\ k' = NUnique(FclusterMaxclust(n_assets, clustering, j + 1))
    /\ UNCHANGED <<method, n_assets, clustering, max_k, flag, cluster_lvls,
                   level_k, cluster_k, stat_list, k_index, pc, auxVars, codepVars,
                   denoiseVars, called, err>>

\* the loop is left: the labels are recoded and (k, clustering_inds) returned
ReturnReCut ==
    /\ pc = "recut" /\ k = j
    /\ clustering_inds' = NpUniqueInverse(clustering_inds)
    /\ pc' = "done"
    /\ UNCHANGED <<method, n_assets, clustering, max_k, flag, cluster_lvls,
                   level_k, cluster_k, stat_list, k_index, k, j, auxVars, codepVars,
                   denoiseVars, called, err>>

\* the locals of the selectors before the call
ClusterLocalsUnset ==
    /\ flag = FALSE
    /\ cluster_lvls = <<>>
    /\ level_k = <<>>
    /\ cluster_k = <<>>
    /\ stat_list = <<>>
    /\ k_index = 0
    /\ k = 0
    /\ j = 0
    /\ clustering_inds = <<>>

\* no selector is being run
ClusterIdle ==
    /\ method = ""
    /\ n_assets = 0
    /\ clustering = <<>>
    /\ max_k = 0
    /\ ClusterLocalsUnset

\* codep_dist is not being run
CodepIdle ==
    /\ codependence = ""
    /\ returns = <<>>
    /\ custom_cov = <<>>
    /\ bins_info = 0
    /\ alpha_tail = 0
    /\ ext = <<>>
    /\ codep = <<>>
    /\ dist = <<>>

\* the locals of denoiseCov before the call
DenoiseLocalsUnset ==
    /\ eVal = <<>>
    /\ eVec = <<>>
    /\ out = <<>>
    /\ var = <<>>
    /\ eMax = <<>>
    /\ eVal_ = <<>>
    /\ corr = <<>>
    /\ cov_ = <<>>

\* neither denoiseCov nor denoisedCorr is being run
DenoiseIdle ==
    /\ entry = ""
    /\ kind = ""
    /\ q = 0
    /\ detone = FALSE
    /\ mkt_comp = 0
    /\ alpha = <<>>
    /\ eigh_w = <<>>
    /\ nFacts = 0
    /\ DenoiseLocalsUnset

\* neither dcorr nor numBins is being run
AuxIdle ==
    /\ fn = ""
    /\ args = <<>>
    /\ locals = <<>>

\* the linkages passed with a distance matrix of n assets: those over the
\* n assets and the empty one; with fewer than 2 assets, for which there is
\* no linkage, the empty one and one over 2 observations
LinkagesFor(n) == (IF n < 2 THEN Linkages(2) ELSE Linkages(n)) \cup {<<>>}

InitCluster ==
    /\ n_assets \in 0..MaxN
    /\ clustering \in LinkagesFor(n_assets)
    /\ method \in {"gap", "silhouette"}
    /\ max_k \in 1..MaxK
    /\ ClusterLocalsUnset
    /\ CodepIdle
    /\ DenoiseIdle
    /\ AuxIdle
    /\ called = <<>>
    /\ err = ""
    /\ pc = "call"

NextCluster ==
    \/ RaiseOnInput
    \/ CutLevels
    \/ TwoDiffGapStat
    \/ StdSilhouetteScore
    \/ ReCut
    \/ ReturnReCut

SpecCluster == InitCluster /\ [][NextCluster]_vars


-----------------------------------------------------------------------------
(* Properties of the cluster-count selectors *)

\* the k chosen by the statistic: the cluster count of the winning level
ChosenK == cluster_k[k_index + 1]

\* the re-cut loop is in a turn it cannot leave: the target has reached the
\* number of assets, and no cut has that many clusters or more
ReCutDiverged == pc = "recut" /\ k # j /\ j >= n_assets

\* C2: the re-cut loop of two_diff_gap_stat and std_silhouette_score
\* terminates for every linkage: it is bounded, so it never goes on
\* incrementing a target that no cut of the n assets can match any more.
C2_ReCutLoopBounded == ~ReCutDiverged

\* once the loop has diverged it stays so: every further turn gives the same
\* cut again (a support of C2's counterexample, up to the target MaxJ)
ReCutDivergedForever == [][ReCutDiverged => ReCutDiverged']_vars

\* C3: the k returned by two_diff_gap_stat is in
\* [1, min(max_k, floor(sqrt(n))) + 2] and the k returned by
\* std_silhouette_score in [1, min(max_k, floor(sqrt(n)))].
C3_ReturnedKInRange ==
    pc = "done" =>
        /\ k >= 1
        /\ ~OverLimit(k, max_k, n_assets, IF method = "gap" THEN 2 ELSE 0)

\* C4: a returned assignment has one label per asset, exactly k distinct
\* labels, and every label is an integer in [0, k), in both branches.
C4_AssignmentWellFormed ==
    pc = "done" =>
        /\ DOMAIN clustering_inds = 0..(n_assets - 1)
        /\ NUnique(clustering_inds) = k
        /\ \A a \in DOMAIN clustering_inds : clustering_inds[a] \in 0..(k - 1)

\* C4's case: an assignment returned by the non-monotonic branch after the
\* re-cut loop has turned, with more than one cluster
C4_Witness == pc = "done" /\ ~flag /\ k > 1 /\ k # ChosenK

\* the monotonic branch returns a level with more than one cluster too
C4_WitnessMonotonic == pc = "done" /\ flag /\ k > 1

\* C5: in the non-monotonic branch the returned k is the k chosen by the
\* statistic; the re-cut loop never replaces it by another cluster count.
C5_ReturnedKIsChosenK == pc = "done" /\ ~flag => k = ChosenK


-----------------------------------------------------------------------------
(* codep_dist and the matrix builders it calls.  A matrix over the assets   *)
(* is a function asset -> asset -> value.  Every entry of every matrix is   *)
(* computed from one pair of columns of returns, so two assets show every   *)
(* case: an entry of the diagonal and an entry off it.                      *)

Assets == {0, 1}

\* largest number of samples (rows of returns)
MaxSamples == 3
\* largest return, returns being small integers
MaxVal == 1
\* largest entry of a covariance matrix handed in or estimated
MaxCov == 1
\* largest number of bins
MaxBins == 2

\* the values of codependence the function has a branch for
Kinds == {"pearson", "spearman", "kendall", "gerber1", "gerber2",
          "abs_pearson", "abs_spearman", "abs_kendall", "distance",
          "mutual_info", "tail", "custom_cov"}

\* values it has no branch for
UnknownKinds == {"covariance", "abs_gerber1"}

\* alpha_tail in hundredths
AlphaTails == {0, 5, 50, 100}

\* the matrix M as a table
Tabulate(M) == Eager([a \in Assets |-> Eager(M[a])])

\* returns[:, a]
Column(X, a) == [s \in 1..Len(X) |-> X[s][a]] @@ <<>>

Sign(x) == IF x < 0 THEN -1 ELSE IF x > 0 THEN 1 ELSE 0

SumProd(x, y) == SumSeq([s \in 1..Len(x) |-> x[s] * y[s]] @@ <<>>)

\* m * sum(x*y) - sum(x) * sum(y): m*m times the covariance of x and y
CoMoment(x, y) == Len(x) * SumProd(x, y) - SumSeq(x) * SumSeq(y)

\* num / sqrt(dx * dy) rounded towards zero, in fixed point; NaN when the
\* divisor is zero
RatioToRoot(num, dx, dy) ==
    IF dx * dy = 0 THEN NaN
    ELSE Num(Sign(num) * ISqrt((num * num * FP * FP) \div (dx * dy)))

\* Pearson correlation of two columns (pandas nancorr)
PearsonOf(x, y) == RatioToRoot(CoMoment(x, y), CoMoment(x, x), CoMoment(y, y))

\* twice the average rank of each entry of x (pandas rank, ties averaged)
Rank2(x) ==
    [s \in 1..Len(x) |->
        2 * Cardinality({t \in 1..Len(x) : x[t] < x[s]})
          + Cardinality({t \in 1..Len(x) : x[t] = x[s]}) + 1] @@ <<>>

\* Spearman correlation: the Pearson correlation of the ranks
SpearmanOf(x, y) == PearsonOf(Rank2(x), Rank2(y))

SamplePairs(x) == {p \in (1..Len(x)) \X (1..Len(x)) : p[1] < p[2]}

\* concordant minus discordant pairs
KendallScore(x, y) ==
    Cardinality({p \in SamplePairs(x) :
                    (x[p[1]] - x[p[2]]) * (y[p[1]] - y[p[2]]) > 0})
    - Cardinality({p \in SamplePairs(x) :
                    (x[p[1]] - x[p[2]]) * (y[p[1]] - y[p[2]]) < 0})

\* pairs not tied in x
Untied(x) == Cardinality({p \in SamplePairs(x) : x[p[1]] # x[p[2]]})

\* Kendall tau-b of two columns (scipy.stats.kendalltau)
KendallOf(x, y) == RatioToRoot(KendallScore(x, y), Untied(x), Untied(y))

\* one entry of DataFrame.corr(method): pandas computes Pearson and Spearman
\* for every pair, and sets the diagonal of Kendall to 1.0 without computing
CorrEntry(meth, X, a, b) ==
    IF meth = "pearson" THEN PearsonOf(Column(X, a), Column(X, b))
    ELSE IF meth = "spearman" THEN SpearmanOf(Column(X, a), Column(X, b))
    ELSE IF a = b THEN Num(FP)
    ELSE KendallOf(Column(X, a), Column(X, b))

\* returns.corr(method=meth)
Corr(meth, X) ==
    Tabulate([a \in Assets |-> [b \in Assets |->
        CorrEntry(meth, X, a, b)]])

\* np.abs of a matrix
AbsEntry(x) == IF IsNum(x) THEN Num(Abs(x[2])) ELSE x
MatAbs(M) == Tabulate([a \in Assets |-> [b \in Assets |->
        AbsEntry(M[a][b])]])

\* one entry of cov2corr: cov / outer(std, std) with std = sqrt(diag(cov)),
\* clipped to [-1, 1].  A negative variance gives a NaN std; a zero std
\* gives 0/0 = NaN or x/0 = +-inf, which the clip turns into +-1
Cov2CorrEntry(c, va, vb) ==
    IF va < 0 \/ vb < 0 THEN NaN
    ELSE IF va * vb = 0 THEN (IF c = 0 THEN NaN ELSE Num(Sign(c) * FP))
    ELSE IF c * c >= va * vb THEN Num(Sign(c) * FP)
    ELSE RatioToRoot(c, va, vb)

cov2corr(cv) ==
    Tabulate([a \in Assets |-> [b \in Assets |->
        Cov2CorrEntry(cv[a][b], cv[a][a], cv[b][b])]])

\* +inf, which a division by zero gives
PosInf == <<"inf", 0>>

\* ln(c) for c = 1, 2, ..., in units of 1e-4; the entries of composite c are
\* the sums of those of their prime factors, so that ln(a*b) = ln(a) + ln(b)
\* holds exactly, as it does up to the last bit in the code
LnTab == <<0, 6931, 10986, 13862, 16094, 17917, 19459, 20793>>

\* c * ln(c), with 0 * ln(0) = 0
CLnC(c) == IF c = 0 THEN 0 ELSE c * LnTab[c]

\* the bin of value v in np.histogram(x, bins): bins equal-width bins over
\* [mn, mx], the last one closed; a constant x has the range
\* [mn - 0.5, mn + 0.5]
BinOf(v, mn, mx, bins) ==
    IF mn = mx THEN bins \div 2
    ELSE IF v = mx THEN bins - 1
    ELSE ((v - mn) * bins) \div (mx - mn)

\* the bin of each entry of x
BinsOf(x, bins) ==
    [s \in 1..Len(x) |->
        BinOf(x[s], Min({x[t] : t \in 1..Len(x)}),
              Max({x[t] : t \in 1..Len(x)}), bins)] @@ <<>>

\* sum of c * ln(c) over the counts c of np.histogram, given the bins
SumCLnC(bx, bins) ==
    SumSeq([b \in 1..bins |->
               CLnC(Cardinality({s \in 1..Len(bx) : bx[s] = b - 1}))] @@ <<>>)

\* sum of c * ln(c) over the counts c of np.histogram2d
SumCLnC2(bx, by, bins) ==
    SumSeq([c \in 1..(bins * bins) |->
               CLnC(Cardinality({s \in 1..Len(bx) :
                                    /\ bx[s] = (c - 1) \div bins
                                    /\ by[s] = (c - 1) % bins}))] @@ <<>>)

\* m times st.entropy of the histogram: m * ln(m) - sum c * ln(c)
EntropyM(bx, bins) == CLnC(Len(bx)) - SumCLnC(bx, bins)

\* m times mutual_info_score(contingency), which sklearn clips at zero
MutualInfoM(bx, by, bins) ==
    Max({0, CLnC(Len(bx)) + SumCLnC2(bx, by, bins)
               - SumCLnC(bx, bins) - SumCLnC(by, bins)})

\* num / den in floating point, rounded to the fixed-point unit as
\* np.round(mat, 8) rounds, then clipped to [0, inf)
FDiv(num, den) ==
    IF den = 0 THEN (IF num = 0 THEN NaN
                     ELSE IF num > 0 THEN PosInf ELSE Num(0))
    ELSE IF num <= 0 THEN Num(0)
    ELSE Num((2 * num * FP + den) \div (2 * den))

\* one entry of mutual_info_matrix(X, bins_info, normalize=True) for an
\* integer bins_info: iXY / min(hX, hY)
MutualInfoEntry(bx, by, bins) ==
    FDiv(MutualInfoM(bx, by, bins),
         Min({EntropyM(bx, bins), EntropyM(by, bins)}))

mutual_info_matrix(X, bins) ==
    Tabulate([a \in Assets |-> [b \in Assets |->
        MutualInfoEntry(BinsOf(Column(X, a), bins),
            BinsOf(Column(X, b), bins), bins)]])

\* vXY / hXY from hX, hY and iXY (each times m)
VarInfoOf(hX, hY, iXY) == FDiv(hX + hY - 2 * iXY, hX + hY - iXY)

\* one entry of var_info_matrix(X, bins_info, normalize=True)
VarInfoEntry(bx, by, bins) ==
    VarInfoOf(EntropyM(bx, bins), EntropyM(by, bins),
              MutualInfoM(bx, by, bins))

var_info_matrix(X, bins) ==
    Tabulate([a \in Assets |-> [b \in Assets |->
        VarInfoEntry(BinsOf(Column(X, a), bins),
            BinsOf(Column(X, b), bins), bins)]])

\* a value in units of 1e-8, the unit ltdi_matrix rounds and clips in
E8(v) == <<"e8", v>>
OneE8 == 100000000

\* np.sort(x)[kk - 1]
KthSmallest(x, kk) ==
    CHOOSE u \in {x[s] : s \in 1..Len(x)} :
        /\ Cardinality({s \in 1..Len(x) : x[s] < u}) < kk
        /\ Cardinality({s \in 1..Len(x) : x[s] <= u}) >= kk

\* the count with strict comparisons: the samples below both thresholds
TailCount_Strict(x, y, kk) ==
    Cardinality({s \in 1..Len(x) :
                    x[s] < KthSmallest(x, kk) /\ y[s] < KthSmallest(y, kk)})

\* the number of samples in the lower tail of both columns
TailCount(x, y, kk) ==
    Cardinality({s \in 1..Len(x) :
                    x[s] <= KthSmallest(x, kk) /\ y[s] <= KthSmallest(y, kk)})

\* np.clip(np.round(count / kk, 8), 1e-8, 1), in units of 1e-8
ClipRoundE8(count, kk) ==
    IF count >= kk THEN E8(OneE8)
    ELSE E8(Max({1, (2 * count * OneE8 + kk) \div (2 * kk)}))

\* a k that is never below 1
TailK_AtLeastOne(m, al) == Max({1, (m * al + 99) \div 100})

\* k = ceil(m * alpha), alpha in hundredths
TailK(m, al) == (m * al + 99) \div 100

\* ltdi_matrix(X, alpha): ones when k = 0, else the share of the k lowest
\* samples of each column that are low in the other column too
LtdiEntry(X, a, b, kk) ==
    IF kk > 0 THEN ClipRoundE8(TailCount(Column(X, a), Column(X, b), kk), kk)
    ELSE E8(OneE8)

ltdi_matrix(X, al) ==
    Tabulate([a \in Assets |-> [b \in Assets |->
        LtdiEntry(X, a, b, TailK(Len(X), al))]])

\* distances: the square root of a rational, or minus the logarithm of a
\* value in units of 1e-8, kept as such
Sqrt(num, den) == <<"sqrt", num, den>>
NegLog(v) == <<"neglog", v>>

\* np.sqrt(np.clip((1 - x) / 2, 0, 1)) of one entry
HalfDistEntry(x) ==
    IF IsNum(x) THEN Sqrt(Max({0, Min({2 * FP, FP - x[2]})}), 2 * FP) ELSE NaN

\* np.sqrt(np.clip(1 - x, 0, 1)) of one entry
OneMinusDistEntry(x) ==
    IF IsNum(x) THEN Sqrt(Max({0, Min({FP, FP - x[2]})}), FP) ELSE NaN

\* -np.log(x) of one entry of ltdi_matrix
NegLogEntry(x) == NegLog(x[2])

\* mutant: the absolute kinds measured with the signed formula
AbsDist_Half(M) == Tabulate([a \in Assets |-> [b \in Assets |->
        HalfDistEntry(M[a][b])]])

\* dist of the kinds pearson, spearman, kendall, gerber1, gerber2, custom_cov
HalfDist(M) == Tabulate([a \in Assets |-> [b \in Assets |->
        HalfDistEntry(M[a][b])]])

\* dist of the kinds abs_pearson, abs_spearman, abs_kendall
AbsDist(M) == Tabulate([a \in Assets |-> [b \in Assets |->
        OneMinusDistEntry(M[a][b])]])

\* dist of the kind distance
DcorrDist(M) == Tabulate([a \in Assets |-> [b \in Assets |->
        OneMinusDistEntry(M[a][b])]])

\* dist of the kind tail
TailDist(M) == Tabulate([a \in Assets |-> [b \in Assets |->
        NegLogEntry(M[a][b])]])

\* codependence[4:] of the absolute kinds
DropAbs == [abs_pearson |-> "pearson", abs_spearman |-> "spearman",
            abs_kendall |-> "kendall"]

\* the symmetric matrices with the entries off the diagonal in offs and
\* those of the diagonal in diags
SymmetricOver(diags, offs) ==
    {M \in [Assets -> [Assets -> diags \cup offs]] :
        /\ \A a \in Assets : M[a][a] \in diags
        /\ \A a, b \in Assets : M[a][b] = M[b][a]
        /\ \A a, b \in Assets : a # b => M[a][b] \in offs}

\* the covariance matrices a caller hands in as custom_cov: symmetric and
\* positive semidefinite
CovMatrices ==
    {M \in SymmetricOver(0..MaxCov, (-MaxCov)..MaxCov) :
        \A a, b \in Assets : M[a][b] * M[a][b] <= M[a][a] * M[b][b]}

\* what gs.gerber_cov_stat1 / gs.gerber_cov_stat2 may return: a symmetric
\* matrix of co-movement covariances, positive semidefinite or not
GerberCovs == SymmetricOver(0..MaxCov, (-MaxCov)..MaxCov)

\* what cf.d_corr_matrix may return: a symmetric matrix of coefficients in
\* [0, 1]
DcorrMatrices ==
    SymmetricOver({Num(0), Num(FP \div 2), Num(FP)},
                  {Num(0), Num(FP \div 2), Num(FP)})

\* dcorr_matrix(X): the matrix of cf.d_corr_matrix as a DataFrame
dcorr_matrix(d) == d

\* the name codep or dist is not bound yet
Unbound == <<>>

\* one branch of codep_dist has bound codep and dist
Bind(c, d, calls) ==
    /\ codep' = c
    /\ dist' = d
    /\ called' = calls
    /\ pc' = "return"

\* the if / elif chain of codep_dist; a value of codependence that matches
\* no branch leaves codep and dist unbound
CodepDist ==
    /\ pc = "codep_dist"
    /\ IF codependence \in {"pearson", "spearman", "kendall"}
       THEN /\ Bind(Corr(codependence, returns),
                    HalfDist(Corr(codependence, returns)),
                    <<"returns.corr", codependence>>)
            /\ UNCHANGED <<custom_cov, bins_info, alpha_tail, ext>>
       ELSE IF codependence = "gerber1"
       THEN /\ \E g \in GerberCovs :
                 /\ ext' = g
                 /\ Bind(cov2corr(g), HalfDist(cov2corr(g)),
                         <<"gs.gerber_cov_stat1", "cov2corr">>)
            /\ UNCHANGED <<custom_cov, bins_info, alpha_tail>>
       ELSE IF codependence = "gerber2"
       THEN /\ \E g \in GerberCovs :
                 /\ ext' = g
                 /\ Bind(cov2corr(g), HalfDist(cov2corr(g)),
                         <<"gs.gerber_cov_stat2", "cov2corr">>)
            /\ UNCHANGED <<custom_cov, bins_info, alpha_tail>>
       ELSE IF codependence \in {"abs_pearson", "abs_spearman", "abs_kendall"}
       THEN /\ Bind(MatAbs(Corr(DropAbs[codependence], returns)),
                    AbsDist(MatAbs(Corr(DropAbs[codependence], returns))),
                    <<"returns.corr", DropAbs[codependence], "np.abs">>)
            /\ UNCHANGED <<custom_cov, bins_info, alpha_tail, ext>>
       ELSE IF codependence \in {"distance"}
       THEN /\ \E d \in DcorrMatrices :
                 /\ ext' = d
                 /\ Bind(dcorr_matrix(d), DcorrDist(dcorr_matrix(d)),
                         <<"dcorr_matrix">>)
            /\ UNCHANGED <<custom_cov, bins_info, alpha_tail>>
       ELSE IF codependence \in {"mutual_info"}
       THEN /\ \E b \in 1..MaxBins :
                 /\ bins_info' = b
                 /\ Bind(mutual_info_matrix(returns, b),
                         var_info_matrix(returns, b),
                         <<"mutual_info_matrix", "var_info_matrix">>)
            /\ UNCHANGED <<custom_cov, alpha_tail, ext>>
       ELSE IF codependence \in {"tail"}
       THEN /\ \E al \in AlphaTails :
                 /\ alpha_tail' = al
                 /\ Bind(ltdi_matrix(returns, al),
                         TailDist(ltdi_matrix(returns, al)),
                         <<"ltdi_matrix">>)
            /\ UNCHANGED <<custom_cov, bins_info, ext>>
       ELSE IF codependence \in {"custom_cov"}
       THEN /\ \E cc \in CovMatrices :
                 /\ custom_cov' = cc
                 /\ Bind(cov2corr(cc), HalfDist(cov2corr(cc)), <<"cov2corr">>)
            /\ UNCHANGED <<bins_info, alpha_tail, ext>>
       ELSE /\ pc' = "return"
            /\ UNCHANGED <<custom_cov, bins_info, alpha_tail, ext, called,
                           codep, dist>>
    /\ UNCHANGED <<codependence, returns, auxVars, clusterVars, denoiseVars, err>>

\* "return codep, dist": reading a name no branch has bound raises
\* UnboundLocalError
ReturnCodepDist ==
    /\ pc = "return"
    /\ IF codep = Unbound \/ dist = Unbound
       THEN pc' = "error" /\ err' = "UnboundLocalError"
       ELSE pc' = "done" /\ UNCHANGED err
    /\ UNCHANGED <<auxVars, clusterVars, codepVars, denoiseVars, called>>

\* every returns matrix of small integers with at least two samples
ReturnsMatrices ==
    UNION {[1..m -> [Assets -> 0..MaxVal]] : m \in 2..MaxSamples}

InitCodep ==
    /\ codependence \in Kinds \cup UnknownKinds
    /\ returns \in ReturnsMatrices
    /\ custom_cov = <<>>
    /\ bins_info = 0
    /\ alpha_tail = 0
    /\ ext = <<>>
    /\ called = <<>>
    /\ codep = Unbound
    /\ dist = Unbound
    /\ ClusterIdle
    /\ DenoiseIdle
    /\ AuxIdle
    /\ err = ""
    /\ pc = "codep_dist"

NextCodep == CodepDist \/ ReturnCodepDist

SpecCodep == InitCodep /\ [][NextCodep]_vars

-----------------------------------------------------------------------------
(* Properties of codep_dist *)

\* codep_dist has come to its end, by a return or by an exception
CodepDistEnded == pc \in {"done", "error"} /\ codependence # ""

\* C1: called with a codependence kind outside the supported set,
\* codep_dist fails with an invalid-argument error (Python's ValueError,
\* the exception its docstring announces) and returns no pair.
C1_UnknownKindInvalidArgument ==
    CodepDistEnded /\ codependence \notin Kinds =>
        pc = "error" /\ err = "ValueError"

\* what the code does instead: it runs past every branch and fails on the
\* read of the unbound local at the return statement
C1_UnknownKindUnboundLocal ==
    CodepDistEnded /\ codependence \notin Kinds =>
        pc = "error" /\ err = "UnboundLocalError"

\* sqrt(clip(num / den, 0, 1)) as the table of the specification states it
TableSqrtClip(num, den) == Sqrt(Max({0, Min({den, num})}), den)

\* dist is entry by entry sqrt(clip((1 - codep) / 2, 0, 1))
TableHalf ==
    \A a, b \in Assets :
        dist[a][b] = IF IsNum(codep[a][b])
                     THEN TableSqrtClip(FP - codep[a][b][2], 2 * FP)
                     ELSE NaN

\* dist is entry by entry sqrt(clip(1 - codep, 0, 1))
TableOneMinus ==
    \A a, b \in Assets :
        dist[a][b] = IF IsNum(codep[a][b])
                     THEN TableSqrtClip(FP - codep[a][b][2], FP)
                     ELSE NaN

\* codep is entry by entry the absolute value of M
TableAbsOf(M) ==
    \A a, b \in Assets :
        codep[a][b] = IF IsNum(M[a][b]) THEN Num(Abs(M[a][b][2])) ELSE M[a][b]

\* C7: codep_dist maps each supported kind to the codependence builder and
\* the distance formula of the dispatch table, and no kind runs the handler
\* of another kind.
C7_DispatchTable ==
    pc = "done" /\ codependence \in Kinds =>
        /\ codependence = "pearson" =>
             /\ called = <<"returns.corr", "pearson">>
             /\ codep = Corr("pearson", returns) /\ TableHalf
        /\ codependence = "spearman" =>
             /\ called = <<"returns.corr", "spearman">>
             /\ codep = Corr("spearman", returns) /\ TableHalf
        /\ codependence = "kendall" =>
             /\ called = <<"returns.corr", "kendall">>
             /\ codep = Corr("kendall", returns) /\ TableHalf
        /\ codependence = "gerber1" =>
             /\ called = <<"gs.gerber_cov_stat1", "cov2corr">>
             /\ codep = cov2corr(ext) /\ TableHalf
        /\ codependence = "gerber2" =>
             /\ called = <<"gs.gerber_cov_stat2", "cov2corr">>
             /\ codep = cov2corr(ext) /\ TableHalf
        /\ codependence = "abs_pearson" =>
             /\ called = <<"returns.corr", "pearson", "np.abs">>
             /\ TableAbsOf(Corr("pearson", returns)) /\ TableOneMinus
        /\ codependence = "abs_spearman" =>
             /\ called = <<"returns.corr", "spearman", "np.abs">>
             /\ TableAbsOf(Corr("spearman", returns)) /\ TableOneMinus
        /\ codependence = "abs_kendall" =>
             /\ called = <<"returns.corr", "kendall", "np.abs">>
             /\ TableAbsOf(Corr("kendall", returns)) /\ TableOneMinus
        /\ codependence = "distance" =>
             /\ called = <<"dcorr_matrix">>
             /\ codep = ext /\ TableOneMinus
        /\ codependence = "mutual_info" =>
             /\ called = <<"mutual_info_matrix", "var_info_matrix">>
             /\ codep = mutual_info_matrix(returns, bins_info)
             /\ dist = var_info_matrix(returns, bins_info)
        /\ codependence = "tail" =>
             /\ called = <<"ltdi_matrix">>
             /\ codep = ltdi_matrix(returns, alpha_tail)
             /\ \A a, b \in Assets : dist[a][b] = NegLog(codep[a][b][2])
        /\ codependence = "custom_cov" =>
             /\ called = <<"cov2corr">>
             /\ codep = cov2corr(custom_cov) /\ TableHalf

\* C7's case: an absolute kind has returned, on returns whose signed
\* correlation is negative and not -1, where the two formulas and the sign
\* all show
C7_Witness ==
    /\ pc = "done" /\ codependence = "abs_pearson"
    /\ IsNum(Corr("pearson", returns)[0][1])
    /\ Corr("pearson", returns)[0][1][2] < 0
    /\ Corr("pearson", returns)[0][1][2] > -FP

\* a distance that is zero / not negative; NaN is neither
IsZeroDist(x) ==
    \/ x = Num(0)
    \/ x[1] = "sqrt" /\ x[2] = 0
    \/ x[1] = "neglog" /\ x[2] = OneE8

NonNegDist(x) ==
    \/ IsNum(x) /\ x[2] >= 0
    \/ x = PosInf
    \/ x[1] = "sqrt" /\ x[2] >= 0
    \/ x[1] = "neglog" /\ x[2] <= OneE8

\* x == y on floating-point values: NaN equals nothing
FEq(x, y) == ~IsNaN(x) /\ ~IsNaN(y) /\ x = y

\* C8: for every returns matrix and every supported kind the distance
\* matrix returned is symmetric and has no negative entry, and for pearson,
\* spearman, kendall, their absolute variants and custom_cov its diagonal is
\* exactly zero.
C8_DistSymmetricNonNegZeroDiag ==
    pc = "done" /\ codependence \in Kinds =>
        /\ \A a, b \in Assets : FEq(dist[a][b], dist[b][a])
        /\ \A a, b \in Assets : NonNegDist(dist[a][b])
        /\ codependence \in {"pearson", "spearman", "kendall", "abs_pearson",
                             "abs_spearman", "abs_kendall", "custom_cov"}
             => \A a \in Assets : IsZeroDist(dist[a][a])

\* every column of returns takes two values at least
NoConstantColumn ==
    \A a \in Assets : Cardinality({returns[s][a] : s \in 1..Len(returns)}) > 1

\* where the code does keep to C8: the kinds computed from returns alone by
\* a correlation, on returns without a constant column
C8_HoldsWithoutConstantColumn ==
    /\ pc = "done" /\ NoConstantColumn
    /\ codependence \in {"pearson", "spearman", "kendall", "abs_pearson",
                         "abs_spearman", "abs_kendall", "tail"}
    => /\ \A a, b \in Assets : FEq(dist[a][b], dist[b][a])
       /\ \A a, b \in Assets : NonNegDist(dist[a][b])
       /\ \A a \in Assets : IsZeroDist(dist[a][a])

-----------------------------------------------------------------------------
(* denoiseCov and the functions it calls.  Eigenvalues are whole numbers of *)
(* 1/EigDen; a modified eigenvalue diagonal is a sequence of numerators     *)
(* over one denominator.  Matrices are terms over the argument cov: the     *)
(* code only passes them on from one matrix function to the next.           *)

\* largest size n of the matrix
MaxDim == 3
\* eigenvalues are multiples of 1/EigDen
EigDen == 2
\* the optimizer's results are multiples of 1/VarDen
VarDen == 4
\* q is the square of a whole number up to MaxRootQ
MaxRootQ == 2
\* largest eigenvalue numerator handed to denoisedCorr directly
MaxEig == 3

\* the values of kind with a policy, and one without
Policies == {"fixed", "spectral", "shrink"}
OtherKinds == {"none"}

RECURSIVE DescendingSeqs(_, _)
\* the non-increasing sequences of len values in 0..top
DescendingSeqs(len, top) ==
    IF len = 0 THEN {<<>>}
    ELSE UNION {{<<v>> \o rest : rest \in DescendingSeqs(len - 1, v)} :
                   v \in 0..top}

Reverse(s) == [i \in 1..Len(s) |-> s[Len(s) + 1 - i]] @@ <<>>

\* what np.linalg.eigh returns for a correlation matrix of size n: n
\* eigenvalues in ascending order, not negative, whose sum is the trace n
EighValues(n) ==
    {Reverse(d) : d \in {e \in DescendingSeqs(n, n * EigDen) :
                            SumSeq(e) = n * EigDen}}

\* eVal.argsort(): the indices (from 1) that sort w, equal values in the
\* order they have in w
Argsort(w) ==
    [i \in 1..Len(w) |->
        CHOOSE a \in 1..Len(w) :
            Cardinality({b \in 1..Len(w) :
                            w[b] < w[a] \/ (w[b] = w[a] /\ b < a)}) = i - 1]
        @@ <<>>

\* the terms: the argument cov, cov2corr of a matrix, the product
\* eVec[:, cols] . diag(vals) . eVec[:, cols].T, the shrinkage sum, a
\* difference, and corr2cov of a matrix and the standard deviations of cov
InputCov == <<"cov">>
Cov2CorrOf(t) == <<"cov2corr", t>>
DotDiagDot(cols, vals, den) == <<"dot", cols, vals, den>>
ShrinkSum(corr0, corr1, a) == <<"corr0+a*corr1+(1-a)*diag(corr1)", corr0, corr1, a>>
MatSub(t, u) == <<"sub", t, u>>
StdOfCov == <<"std", InputCov>>
Corr2CovOf(t, sd) == <<"corr2cov", t, sd>>

\* s[a..b]
Slice(s, a, b) == [i \in 1..(b - a + 1) |-> s[a + i - 1]] @@ <<>>

\* denoiseCov to the call of getPCA: corr and std are taken from cov
DenoiseCov ==
    /\ pc = "denoiseCov"
    /\ corr' = Cov2CorrOf(InputCov)
    /\ called' = <<"cov2corr">>
    /\ pc' = "getPCA"
    /\ UNCHANGED <<out, entry, kind, q, detone, mkt_comp, alpha, eigh_w, eVal,
                   eVec, var, eMax, nFacts, eVal_, cov_, auxVars, clusterVars,
                   codepVars, err>>

\* the columns of eVec left in the order eigh gave them
TakeColumns_AsGiven(indices) == [i \in 1..Len(indices) |-> i] @@ <<>>

\* eVec[:, indices]: column i of the result is column indices[i] of eigh's
TakeColumns(indices) == indices

\* getPCA: the eigenvalues and the eigenvectors of eigh, both reordered by
\* the reversed argsort of the eigenvalues
GetPCA ==
    /\ pc = "getPCA"
    /\ eVal' = Pick(eigh_w, Reverse(Argsort(eigh_w)), 1)
    /\ eVec' = TakeColumns(Reverse(Argsort(eigh_w)))
    /\ called' = Append(called, "getPCA")
    /\ pc' = "findMaxEval"
    /\ UNCHANGED <<out, entry, kind, q, detone, mkt_comp, alpha, eigh_w, var, eMax,
                   nFacts, eVal_, corr, cov_, auxVars, clusterVars, codepVars, err>>

\* eMax = var * (1 + (1.0 / q) ** 0.5) ** 2, q being a square
EMaxOf(v, qq) ==
    <<v[1] * (ISqrt(qq) + 1) * (ISqrt(qq) + 1), v[2] * qq>>

\* what minimize can return on the bounds (1e-5, 1 - 1e-5): success or not,
\* and in both cases an x[0] inside the bounds
MinimizeResults ==
    {[success |-> s, x |-> <<xx, VarDen>>] :
        s \in BOOLEAN, xx \in 1..(VarDen - 1)}

\* the same if / else, but the solution is kept when success is false
VarOf_KeepSolution(o) == o.x

\* if out["success"]: var = out["x"][0]  else: var = 1
VarOf(o) == IF o.success THEN o.x ELSE <<1, 1>>

\* findMaxEval: the variance the optimizer found inside its bounds, or 1
\* when it reports no success; eMax follows from var and both are returned
FindMaxEval ==
    /\ pc = "findMaxEval"
    /\ \E o \in MinimizeResults :
         /\ out' = o
         /\ var' = VarOf(o)
         /\ eMax' = EMaxOf(VarOf(o), q)
    /\ called' = Append(called, "findMaxEval")
    /\ pc' = "nFacts"
    /\ UNCHANGED <<entry, kind, q, detone, mkt_comp, alpha, eigh_w, eVal,
                   eVec, nFacts, eVal_, corr, cov_, auxVars, clusterVars, codepVars,
                   err>>

\* an eigenvalue e (in 1/EigDen) is below the fraction x
EigLess(e, x) == e * x[2] < x[1] * EigDen

\* a.searchsorted(x) of an ascending a, side='left' by default: the number
\* of entries below x
SearchSorted(a, x) == Cardinality({i \in 1..Len(a) : EigLess(a[i], x)})

\* nFacts = eVal.shape[0] - np.diag(eVal)[::-1].searchsorted(eMax)
CountFacts ==
    /\ pc = "nFacts"
    /\ nFacts' = Len(eVal) - SearchSorted(Reverse(eVal), eMax)
    /\ pc' = "policy"
    /\ UNCHANGED <<out, entry, kind, q, detone, mkt_comp, alpha, eigh_w, eVal,
                   eVec, var, eMax, eVal_, corr, cov_, auxVars, clusterVars, codepVars,
                   called, err>>

\* a kind outside the three policies treated as "shrink"
SelectPolicy_ShrinkByDefault ==
    /\ pc = "policy"
    /\ pc' = IF kind \in {"fixed", "spectral"} THEN "denoisedCorr"
             ELSE "shrinkCorr"
    /\ UNCHANGED <<auxVars, denoiseVars, clusterVars, codepVars, called, err>>

\* the if / elif on kind in denoiseCov: a kind without a policy leaves corr
\* as it is
SelectPolicy ==
    /\ pc = "policy"
    /\ pc' = IF kind \in {"fixed", "spectral"} THEN "denoisedCorr"
             ELSE IF kind = "shrink" THEN "shrinkCorr"
             ELSE "detone"
    /\ UNCHANGED <<auxVars, denoiseVars, clusterVars, codepVars, called, err>>

\* eVal_[nFacts:].sum() / float(eVal_.shape[0] - nFacts), as a fraction; it
\* is 0.0 / 0.0 = NaN when nFacts is the size, and no entry receives it
NoiseAverage(ev, nf) ==
    <<SumSeq(Slice(ev, nf + 1, Len(ev))), Len(ev) - nf>>

\* eVal_[nFacts:] = x for a fraction x: the diagonal ev with every entry
\* after the first nf replaced by x, over the denominator of x
SetTail(ev, nf, x) ==
    IF nf >= Len(ev) THEN <<ev, 1>>
    ELSE <<[i \in 1..Len(ev) |-> IF i <= nf THEN ev[i] * x[2] ELSE x[1]]
             @@ <<>>, x[2]>>

\* mutant: the noise average taken over all n eigenvalues
FixedEVal_OverAll(ev, nf) ==
    SetTail(ev, nf, <<SumSeq(Slice(ev, nf + 1, Len(ev))), Len(ev)>>)

\* eVal_ of the policy 'fixed'
FixedEVal(ev, nf) == SetTail(ev, nf, NoiseAverage(ev, nf))

\* eVal_ of the policy 'spectral'
SpectralEVal(ev, nf) == SetTail(ev, nf, <<0, 1>>)

\* mutant: the reconstruction returned as it is
Reconstructed_Raw(cols, ev_) == DotDiagDot(cols, ev_[1], ev_[2])

\* corr = cov2corr(np.dot(eVec, eVal_).dot(eVec.T))
Reconstructed(cols, ev_) == Cov2CorrOf(DotDiagDot(cols, ev_[1], ev_[2]))

\* the diagonal of eVal after the assignments to eVal_, were eVal_ the
\* diagonal of eVal itself and not a copy of it
DiagAfterWrites_Shared(ev, ev_) ==
    [i \in 1..Len(ev) |-> ev_[1][i] \div ev_[2]] @@ <<>>

\* eVal_ = np.diag(eVal).copy(): eVal_ is an array of its own, and the
\* assignments to eVal_[nFacts:] leave the argument eVal as it was
DiagAfterWrites(ev, ev_) == ev

\* denoisedCorr: the eigenvalues after the first nFacts are replaced by
\* their average (fixed) or by zero (spectral), the matrix is put together
\* again and normalized
DenoisedCorr ==
    /\ pc = "denoisedCorr"
    /\ eVal' = DiagAfterWrites(eVal,
                   IF kind = "fixed" THEN FixedEVal(eVal, nFacts)
                   ELSE IF kind = "spectral" THEN SpectralEVal(eVal, nFacts)
                   ELSE <<eVal, 1>>)
    /\ eVal_' = IF kind = "fixed" THEN FixedEVal(eVal, nFacts)
                ELSE IF kind = "spectral" THEN SpectralEVal(eVal, nFacts)
                ELSE <<eVal, 1>>
    /\ corr' = Reconstructed(eVec,
                   IF kind = "fixed" THEN FixedEVal(eVal, nFacts)
                   ELSE IF kind = "spectral" THEN SpectralEVal(eVal, nFacts)
                   ELSE <<eVal, 1>>)
    /\ called' = called \o <<"denoisedCorr", "cov2corr">>
    /\ pc' = IF entry = "denoiseCov" THEN "detone" ELSE "done"
    /\ UNCHANGED <<out, entry, kind, q, detone, mkt_comp, alpha, eigh_w,
                   eVec, var, eMax, nFacts, cov_, auxVars, clusterVars, codepVars,
                   err>>

\* shrinkCorr: the signal part, plus alpha times the noise part, plus
\* 1 - alpha times the diagonal of the noise part; returned as it is
ShrinkCorr ==
    /\ pc = "shrinkCorr"
    /\ corr' = ShrinkSum(
                   DotDiagDot(Slice(eVec, 1, nFacts), Slice(eVal, 1, nFacts), 1),
                   DotDiagDot(Slice(eVec, nFacts + 1, Len(eVal)),
                              Slice(eVal, nFacts + 1, Len(eVal)), 1),
                   alpha)
    /\ called' = Append(called, "shrinkCorr")
    /\ pc' = "detone"
    /\ UNCHANGED <<out, entry, kind, q, detone, mkt_comp, alpha, eigh_w, eVal,
                   eVec, var, eMax, nFacts, eVal_, cov_, auxVars, clusterVars,
                   codepVars, err>>

\* if detone == True: the part of the first mkt_comp eigenvectors is taken
\* off corr
Detone ==
    /\ pc = "detone"
    /\ IF detone
       THEN /\ corr' = MatSub(corr,
                           DotDiagDot(Slice(eVec, 1, Min({mkt_comp, Len(eVal)})),
                                      Slice(eVal, 1, Min({mkt_comp, Len(eVal)})),
                                      1))
            /\ called' = Append(called, "detone")
       ELSE UNCHANGED <<corr, called>>
    /\ pc' = "corr2cov"
    /\ UNCHANGED <<out, entry, kind, q, detone, mkt_comp, alpha, eigh_w, eVal,
                   eVec, var, eMax, nFacts, eVal_, cov_, auxVars, clusterVars,
                   codepVars, err>>

\* cov_ = corr2cov(corr, std), and the return
Corr2Cov ==
    /\ pc = "corr2cov"
    /\ cov_' = Corr2CovOf(corr, StdOfCov)
    /\ called' = Append(called, "corr2cov")
    /\ pc' = "done"
    /\ UNCHANGED <<out, entry, kind, q, detone, mkt_comp, alpha, eigh_w, eVal,
                   eVec, var, eMax, nFacts, eVal_, corr, auxVars, clusterVars,
                   codepVars, err>>

\* a call of denoiseCov on a covariance matrix of size n
InitDenoiseCov ==
    /\ entry = "denoiseCov"
    /\ \E n \in 1..MaxDim : eigh_w \in EighValues(n)
    /\ kind \in Policies \cup OtherKinds
    /\ q \in {x * x : x \in 1..MaxRootQ}
    /\ detone \in BOOLEAN
    /\ mkt_comp = 1
    /\ alpha = <<1, 10>>
    /\ nFacts = 0
    /\ DenoiseLocalsUnset
    /\ pc = "denoiseCov"

\* a call of denoisedCorr on any descending eigenvalue diagonal and any
\* nFacts from 0 to its size
InitDenoisedCorr ==
    /\ entry = "denoisedCorr"
    /\ \E n \in 1..MaxDim :
         /\ eVal \in DescendingSeqs(n, MaxEig)
         /\ eVec = [i \in 1..n |-> i]
         /\ nFacts \in 0..n
    /\ kind \in {"fixed", "spectral"} \cup OtherKinds
    /\ q = 0
    /\ detone = FALSE
    /\ mkt_comp = 0
    /\ alpha = <<>>
    /\ eigh_w = <<>>
    /\ out = <<>>
    /\ var = <<>>
    /\ eMax = <<>>
    /\ eVal_ = <<>>
    /\ corr = <<>>
    /\ cov_ = <<>>
    /\ pc = "denoisedCorr"

InitDenoise ==
    /\ InitDenoiseCov \/ InitDenoisedCorr
    /\ ClusterIdle
    /\ CodepIdle
    /\ AuxIdle
    /\ called = <<>>
    /\ err = ""

NextDenoise ==
    \/ DenoiseCov
    \/ GetPCA
    \/ FindMaxEval
    \/ CountFacts
    \/ SelectPolicy
    \/ DenoisedCorr
    \/ ShrinkCorr
    \/ Detone
    \/ Corr2Cov

SpecDenoise == InitDenoise /\ [][NextDenoise]_vars

-----------------------------------------------------------------------------
(* Properties of the denoising chain *)

\* nFacts has been computed by denoiseCov
FactsCounted ==
    entry = "denoiseCov"
        /\ pc \in {"policy", "denoisedCorr", "shrinkCorr", "detone",
                   "corr2cov", "done"}

\* C6: in denoiseCov nFacts is the number of eigenvalues that strictly
\* exceed eMax; an eigenvalue equal to eMax counts as noise.
C6_NFactsStrictlyAboveEMax ==
    FactsCounted =>
        nFacts = Cardinality({i \in 1..Len(eVal) :
                                 eVal[i] * eMax[2] > eMax[1] * EigDen})

\* what the code computes: the eigenvalues not below eMax
C6_NFactsNotBelowEMax ==
    FactsCounted =>
        nFacts = Cardinality({i \in 1..Len(eVal) :
                                 eVal[i] * eMax[2] >= eMax[1] * EigDen})

\* denoisedCorr has returned
DenoisedCorrDone ==
    /\ entry \in {"denoiseCov", "denoisedCorr"}
    /\ kind \in {"fixed", "spectral"}
    /\ pc \in {"detone", "corr2cov", "done"}

\* the sum of the first nf entries of s
SumFirst(s, nf) == SumSeq(Slice(s, 1, nf))

\* sum(eVal_) compared with sum(eVal), both times the denominator of eVal_
NewSum == SumSeq(eVal_[1])
OldSum == SumSeq(eVal) * eVal_[2]
NoiseSum == SumSeq(Slice(eVal, nFacts + 1, Len(eVal)))

\* C9 as stated: 'fixed' keeps the sum of the eigenvalues, and 'spectral'
\* makes it strictly smaller unless nFacts == n.
C9_FixedKeepsSumSpectralLowers ==
    DenoisedCorrDone =>
        /\ kind = "fixed" => NewSum = OldSum
        /\ kind = "spectral" /\ nFacts # Len(eVal) => NewSum < OldSum

\* C9, amended: 'fixed' keeps the sum of the eigenvalues; 'spectral' leaves
\* the sum of the first nFacts eigenvalues, which is the original sum less
\* the sum of the noise eigenvalues: strictly smaller exactly when the noise
\* eigenvalues have a positive sum, equal when they sum to zero.
C9_FixedKeepsSumSpectralDropsNoise ==
    DenoisedCorrDone =>
        /\ kind = "fixed" => NewSum = OldSum
        /\ kind = "spectral" =>
             /\ eVal_[2] = 1
             /\ NewSum = SumFirst(eVal, nFacts)
             /\ NewSum = OldSum - NoiseSum
             /\ (NewSum < OldSum) <=> (NoiseSum > 0)

\* C9's case: 'spectral' has run with noise eigenvalues (nFacts < n) that
\* are all zero, after a signal eigenvalue that is not
C9_Witness ==
    /\ DenoisedCorrDone /\ kind = "spectral"
    /\ nFacts < Len(eVal) /\ nFacts > 0 /\ NoiseSum = 0 /\ NewSum > 0

\* 'fixed' has averaged two noise eigenvalues or more that differ
C9_WitnessFixed ==
    /\ DenoisedCorrDone /\ kind = "fixed"
    /\ nFacts + 2 <= Len(eVal) /\ nFacts > 0
    /\ eVal[nFacts + 1] # eVal[Len(eVal)]

\* the matrix denoiseCov detones or rescales: corr as the policy left it
PolicyResult ==
    IF cov_[2][1] = "sub" THEN cov_[2][2] ELSE cov_[2]

\* C10 as stated: whichever of the three policies is selected, the matrix
\* put together again has gone through cov2corr before it is detoned or
\* rescaled.
C10_EveryPolicyNormalized ==
    entry = "denoiseCov" /\ pc = "done" /\ kind \in Policies =>
        PolicyResult[1] = "cov2corr"

\* C10, amended: the reconstructions of 'fixed' and 'spectral' go through
\* cov2corr before they are detoned or rescaled; that of 'shrink' does not:
\* it is detoned or rescaled as shrinkCorr put it together.
C10_FixedSpectralNormalizedShrinkNot ==
    entry = "denoiseCov" /\ pc = "done" /\ kind \in Policies =>
        /\ kind \in {"fixed", "spectral"} =>
             /\ PolicyResult = Cov2CorrOf(DotDiagDot(eVec, eVal_[1], eVal_[2]))
             /\ \E i, m \in 1..Len(called) :
                  /\ i < m
                  /\ called[i] = "denoisedCorr" /\ called[i + 1] = "cov2corr"
                  /\ called[m] \in {"detone", "corr2cov"}
                  /\ \A x \in 1..Len(called) :
                       called[x] \in {"detone", "corr2cov"} => x > i + 1
        /\ kind = "shrink" =>
             /\ PolicyResult[1] = "corr0+a*corr1+(1-a)*diag(corr1)"
             /\ \A i \in 1..Len(called) :
                  called[i] = "shrinkCorr" => called[i + 1] # "cov2corr"

\* C10's case: a detoned run of each kind of policy has returned
C10_Witness ==
    entry = "denoiseCov" /\ pc = "done" /\ kind = "shrink" /\ detone
        /\ nFacts > 0 /\ nFacts < Len(eVal)

C10_WitnessFixed ==
    entry = "denoiseCov" /\ pc = "done" /\ kind = "fixed" /\ detone
        /\ nFacts > 0 /\ nFacts < Len(eVal)

-----------------------------------------------------------------------------
(* findMaxEval and the optimizer's report *)

\* findMaxEval has returned to denoiseCov
FindMaxEvalReturned == out # <<>>

\* C11: whatever the bounded minimizer reports, findMaxEval returns: var is
\* the minimizer's solution when it reports success and 1 when it reports
\* failure, eMax is var * (1 + sqrt(1/q))^2, and no error is raised.
C11_OptimizerFailureNotSurfaced ==
    FindMaxEvalReturned =>
        /\ out.success => var = out.x
        /\ ~out.success => var = <<1, 1>>
        /\ eMax[1] * var[2] * q = eMax[2] * var[1] * (ISqrt(q) + 1) * (ISqrt(q) + 1)
        /\ err = ""
        /\ pc # "error"

\* C11's case: the minimizer reported failure with a solution other than 1
\* and denoiseCov went on to its end
C11_Witness ==
    FindMaxEvalReturned /\ ~out.success /\ out.x # <<1, 1>> /\ q > 1
        /\ pc = "done"

-----------------------------------------------------------------------------
(* dcorr: the shapes of its two arguments and the call of the kernel *)

\* largest extent of an axis of an array passed to dcorr
MaxAxis == 2

RECURSIVE Prod(_)
\* np.prod of a shape
Prod(s) == IF s = <<>> THEN 1 ELSE s[1] * Prod(Tail(s))

\* the shapes of the arrays passed: 0-D, 1-D and 2-D
ArrayShapes ==
    {<<>>} \cup {<<a>> : a \in 0..MaxAxis}
           \cup {<<a, b>> : a, b \in 0..MaxAxis}

\* np.atleast_1d: a scalar becomes an array of one element
AtLeast1d(s) == IF s = <<>> THEN <<1>> ELSE s

\* X[:, None]: a new axis of extent 1 after the first axis
NewAxis(s) == <<s[1], 1>> \o Tail(s)

\* the same statement without its assignment
ColumnOf_Kept(s) == s

\* if np.prod(X.shape) == len(X): X = X[:, None]
ColumnOf(s) == IF Prod(s) = s[1] THEN NewAxis(s) ELSE s

\* np.atleast_2d: a 1-D array becomes one row
AtLeast2d(s) ==
    IF s = <<>> THEN <<1, 1>> ELSE IF Len(s) = 1 THEN <<1, s[1]>> ELSE s

\* the shape of an argument when the sample counts are compared
Reshaped(s) == AtLeast2d(ColumnOf(AtLeast1d(s)))

\* what cf.d_corr returns, as a term over its two arguments
KernelValue(sx, sy) == <<"d_corr", sx, sy>>

\* dcorr(X, Y): X and Y reshaped, ValueError when their first extents
\* differ, the kernel's value otherwise
DcorrOn(sx, sy) ==
    IF sy[1] # sx[1]
    THEN /\ locals' = [X |-> sx, Y |-> sy, n |-> sx[1]]
         /\ err' = "ValueError"
         /\ pc' = "error"
         /\ UNCHANGED called
    ELSE /\ locals' = [X |-> sx, Y |-> sy, n |-> sx[1],
                       value |-> KernelValue(sx, sy)]
         /\ called' = Append(called, <<"cf.d_corr", sx, sy>>)
         /\ pc' = "done"
         /\ UNCHANGED err

Dcorr ==
    /\ pc = "dcorr"
    /\ DcorrOn(Reshaped(args.X), Reshaped(args.Y))
    /\ UNCHANGED <<fn, args, clusterVars, codepVars, denoiseVars>>

InitDcorr ==
    /\ fn = "dcorr"
    /\ args \in [X : ArrayShapes, Y : ArrayShapes]
    /\ locals = <<>>
    /\ pc = "dcorr"

-----------------------------------------------------------------------------
(* numBins: the two closed forms and the cast of their result *)

\* largest n_samples passed to numBins
MaxCount == 6
\* corr is passed in units of 1/CorrDen
CorrDen == 10

\* the default of the parameter corr
None == <<>>

\* the values of corr: None, or <<c>> for the coefficient c / CorrDen; the
\* coefficients run from -1 to 1, both included
CorrArgs ==
    {None} \cup {<<c>> : c \in {-CorrDen, -5, 0, 5, CorrDen - 1, CorrDen}}

\* a rule under which every sample more is a bin more
UnivariateBins_OnePerSample(n) == n

\* the univariate rule.  With A = 8 + 324 n the code's z is Cardano's
\* radical: z^3 = A + sqrt(A^2 - 64) and (4/z)^3 = A - sqrt(A^2 - 64), so
\* that x = z/6 + 2/(3z) + 1/3 is the real root of x^2 (x - 1) = 3 n.
\* np.round(x) is the m with m - 1/2 <= x < m + 1/2, that is, x^2 (x - 1)
\* being increasing from x = 1 on, with
\*     (2m - 1)^2 (2m - 3) <= 24 n < (2m + 1)^2 (2m - 1);
\* both ends are odd and 24 n is even, so x is never halfway
UnivariateBins(n) ==
    CHOOSE m \in 1..(n + 1) :
        /\ (2 * m - 1) * (2 * m - 1) * (2 * m - 3) <= 24 * n
        /\ 24 * n < (2 * m + 1) * (2 * m + 1) * (2 * m - 1)

\* the bivariate rule rounds x = sqrt((1 + s) / 2) with
\* s = sqrt(1 + 24 n / (1 - corr^2)); x >= m - 1/2 iff 2 s >= (2m - 1)^2 - 2
HalfStep(m) == (2 * m - 1) * (2 * m - 1) - 2

\* 2 s >= l for corr = c / CorrDen, |c| < CorrDen: 4 s^2 >= l^2 when l > 0
TwiceSAtLeast(l, n, c) ==
    l <= 0 \/
    (l * l - 4) * (CorrDen * CorrDen - c * c) <= 96 * n * CorrDen * CorrDen

\* np.round(2**-0.5 * (1 + (1 + 24 * n_samples / (1 - corr**2)) ** 0.5) ** 0.5)
\* for |corr| < 1; x is never halfway for the coefficients of CorrArgs
BivariateBins(n, c) ==
    CHOOSE m \in 1..(n + 2) :
        TwiceSAtLeast(HalfStep(m), n, c) /\ ~TwiceSAtLeast(HalfStep(m + 1), n, c)

\* np.int32 of an infinite or NaN b: the cast is not defined; the builds
\* give the smallest or the largest 32-bit integer
Int32OfNonFinite == {-2147483647 - 1, 2147483647}

\* bins = np.int32(b); return bins
NumBinsReturn(b) ==
    /\ locals' = [b |-> b, bins |-> b]
    /\ pc' = "done"
    /\ UNCHANGED err

\* numBins(n_samples, corr).  With corr = 1 or -1 the division by
\* 1 - corr**2 is a ZeroDivisionError for a Python float and gives an
\* infinite (NaN when n_samples is 0) quotient for a numpy float, which goes
\* through np.round to the cast
NumBinsOn(n, c) ==
    IF c = None THEN NumBinsReturn(UnivariateBins(n))
    ELSE IF c[1] * c[1] = CorrDen * CorrDen
    THEN \/ /\ err' = "ZeroDivisionError"
            /\ pc' = "error"
            /\ UNCHANGED locals
         \/ \E v \in Int32OfNonFinite :
              /\ locals' = [b |-> PosInf, bins |-> v]
              /\ pc' = "done"
              /\ UNCHANGED err
    ELSE NumBinsReturn(BivariateBins(n, c[1]))

NumBins ==
    /\ pc = "numBins"
    /\ NumBinsOn(args.n_samples, args.corr)
    /\ UNCHANGED <<fn, args, clusterVars, codepVars, denoiseVars, called>>

InitNumBins ==
    /\ fn = "numBins"
    /\ args \in [n_samples : 0..MaxCount, corr : CorrArgs]
    /\ locals = <<>>
    /\ pc = "numBins"

\* np.corrcoef(x, y)[0, 1], kept exact: <<"corr", s, num, den>> stands for
\* the coefficient s * sqrt(num / den); a constant column gives 0/0 = NaN
CorrCoef(x, y) ==
    IF CoMoment(x, x) * CoMoment(y, y) = 0 THEN NaN
    ELSE <<"corr", Sign(CoMoment(x, y)), CoMoment(x, y) * CoMoment(x, y),
           CoMoment(x, x) * CoMoment(y, y)>>

\* corr == 1
IsOne(c) == ~IsNaN(c) /\ c[2] = 1 /\ c[3] = c[4]

\* bins_info == "HGR": if corr == 1: bins = numBins(m, None)
\* else: bins = numBins(m, corr); the corr argument numBins gets
HGRCorrArg(c) == IF IsOne(c) THEN None ELSE <<c>>

\* 2 * s >= l for s = (1 + 24 * n / (1 - corr**2)) ** 0.5 and
\* corr**2 = num / den < 1
TwiceSAtLeastOf(l, n, num, den) ==
    l <= 0 \/ (l * l - 4) * (den - num) <= 96 * n * den

\* np.round(2**-0.5 * (1 + (1 + 24 * n_samples / (1 - corr**2)) ** 0.5) ** 0.5)
\* for corr**2 = num / den < 1
BivariateBinsOf(n, num, den) ==
    CHOOSE m \in 1..(2 * n + 4) :
        /\ TwiceSAtLeastOf(HalfStep(m), n, num, den)
        /\ ~TwiceSAtLeastOf(HalfStep(m + 1), n, num, den)

\* what numBins(n_samples, corr) returns for the numpy float np.corrcoef
\* gives: with corr**2 = 1 the quotient by 1 - corr**2 is infinite, with a
\* NaN corr it is NaN, and either goes through np.round to the np.int32 cast
HGRBins(n, a) ==
    IF Len(a) = 0 THEN {UnivariateBins(n)}
    ELSE IF IsNaN(a[1]) \/ a[1][3] = a[1][4] THEN Int32OfNonFinite
    ELSE {BivariateBinsOf(n, a[1][3], a[1][4])}

\* np.triu_indices(n), zipped
TriuIndices == <<<<0, 0>>, <<0, 1>>, <<1, 1>>>>

\* the corr argument of numBins in the iteration p of the loop
PairArg(X, p) ==
    HGRCorrArg(CorrCoef(Column(X, TriuIndices[p][1]),
                        Column(X, TriuIndices[p][2])))

NumBinsCall(X, p) == <<"numBins", Len(X), PairArg(X, p)>>

\* the iterations whose bins are not those of a finite b
NonFinitePairs(X) ==
    {p \in 1..Len(TriuIndices) :
        HGRBins(Len(X), PairArg(X, p)) = Int32OfNonFinite}

\* np.histogram2d(x, y, bins) with the cast of a non-finite b: a negative
\* number of bins is rejected, the largest one cannot be allocated
HistogramErrors(v) ==
    IF v < 0 THEN {"ValueError"} ELSE {"ValueError", "MemoryError"}

\* the iteration that fills mat[a, b] and mat[b, a]
PairIndex(a, b) ==
    CHOOSE p \in 1..Len(TriuIndices) :
        TriuIndices[p] = <<Min({a, b}), Max({a, b})>>

\* mat[i, j] of the function f with the bins of the pair
InfoEntryOf(f, x, y, b) ==
    IF f = "mutual_info_matrix"
    THEN MutualInfoEntry(BinsOf(x, b), BinsOf(y, b), b)
    ELSE VarInfoEntry(BinsOf(x, b), BinsOf(y, b), b)

\* bins of each iteration, when all are finite
PairBins(X) ==
    Eager([p \in 1..Len(TriuIndices) |->
        CHOOSE b \in HGRBins(Len(X), PairArg(X, p)) : TRUE])

InfoMatrixOf(f, X, pb) ==
    Tabulate([a \in Assets |-> [b \in Assets |->
        InfoEntryOf(f, Column(X, a), Column(X, b), pb[PairIndex(a, b)])]])

\* mutual_info_matrix(X, "HGR") and var_info_matrix(X, "HGR"): the loop over
\* the pairs up to the first one whose histogram fails, then the clip
InfoMatrixHGROn(f, X, bad) ==
    IF bad = {}
    THEN /\ called' = Eager([p \in 1..Len(TriuIndices) |-> NumBinsCall(X, p)])
         /\ locals' = [bins |-> PairBins(X),
                       mat |-> InfoMatrixOf(f, X, PairBins(X))]
         /\ pc' = "done"
         /\ UNCHANGED err
    ELSE \E v \in Int32OfNonFinite :
           \E e \in HistogramErrors(v) :
              /\ called' = Eager([p \in 1..Min(bad) |-> NumBinsCall(X, p)])
              /\ locals' = [bins |-> v]
              /\ err' = e
              /\ pc' = "error"

InfoMatrixHGR ==
    /\ pc = "HGR"
    /\ InfoMatrixHGROn(fn, args.X, NonFinitePairs(args.X))
    /\ UNCHANGED <<fn, args, clusterVars, codepVars, denoiseVars>>

InitInfoMatrixHGR ==
    /\ fn \in {"mutual_info_matrix", "var_info_matrix"}
    /\ args \in [X : ReturnsMatrices, bins_info : {"HGR"}]
    /\ locals = <<>>
    /\ pc = "HGR"

InitAux ==
    /\ InitDcorr \/ InitNumBins \/ InitInfoMatrixHGR
    /\ ClusterIdle
    /\ CodepIdle
    /\ DenoiseIdle
    /\ called = <<>>
    /\ err = ""

NextAux ==
    \/ Dcorr
    \/ NumBins
    \/ InfoMatrixHGR

SpecAux == InitAux /\ [][NextAux]_vars

\* the number of samples of an argument as the caller passed it: 1 for a
\* scalar, the first extent otherwise
SamplesOf(s) == IF s = <<>> THEN 1 ELSE s[1]

\* C12: dcorr makes a 2-D column of every 1-D argument; when the arguments
\* differ in their number of samples it raises an error and the kernel has
\* not been called; the kernel is only called with two arrays of the same
\* number of rows.
C12_DcorrColumnsAndEqualSamples ==
    fn = "dcorr" /\ pc # "dcorr" =>
        /\ Len(args.X) = 1 => locals.X = <<args.X[1], 1>>
        /\ Len(args.Y) = 1 => locals.Y = <<args.Y[1], 1>>
        /\ SamplesOf(args.X) # SamplesOf(args.Y) =>
             pc = "error" /\ err # "" /\ called = <<>>
        /\ \A i \in 1..Len(called) :
             called[i][1] = "cf.d_corr" => called[i][2][1] = called[i][3][1]

\* C12's case: two 1-D arguments of different lengths have been rejected
C12_Witness ==
    fn = "dcorr" /\ pc = "error" /\ Len(args.X) = 1 /\ Len(args.Y) = 1
        /\ args.X[1] > 1 /\ args.Y[1] > 0 /\ args.X[1] # args.Y[1]

\* two 1-D arguments of the same length have reached the kernel
C12_WitnessKernel ==
    fn = "dcorr" /\ pc = "done" /\ Len(args.X) = 1 /\ Len(args.Y) = 1
        /\ args.X[1] > 1 /\ Len(called) = 1

-----------------------------------------------------------------------------
(* the selectors on fewer than 2 assets or on an empty linkage *)

\* C13: called on a distance matrix of fewer than 2 assets or on an empty
\* linkage, two_diff_gap_stat and std_silhouette_score end with the error
\* raised for a value that cannot be computed, and no k and no assignment
\* have been produced.
C13_FewAssetsOrEmptyLinkageFails ==
    method \in {"gap", "silhouette"} /\ pc # "call"
        /\ (n_assets < 2 \/ clustering = <<>>) =>
            /\ pc = "error"
            /\ err = "ValueError"
            /\ k = 0
            /\ clustering_inds = <<>>
            /\ cluster_lvls = <<>>

\* C13's case: a call on one asset with a linkage, and a call on several
\* assets with an empty linkage, have each ended
C13_Witness ==
    method = "gap" /\ pc = "error" /\ n_assets = 1 /\ clustering # <<>>

C13_WitnessEmptyLinkage ==
    method = "silhouette" /\ pc = "error" /\ n_assets = 3 /\ clustering = <<>>

-----------------------------------------------------------------------------
(* numBins: few samples, and the growth of the univariate rule *)

NumBinsEnded == fn = "numBins" /\ pc # "numBins"

\* C14: numBins fails on fewer than 2 samples, with corr absent and with
\* corr given, and on 2 samples or more it returns an integer above 0.
C14_NumBinsFailsBelowTwoSamples ==
    NumBinsEnded =>
        /\ args.n_samples < 2 => pc = "error" /\ err # ""
        /\ args.n_samples >= 2 => pc = "done" /\ locals.bins > 0

\* what numBins does on fewer than 2 samples: with a corr that is absent or
\* strictly between -1 and 1 it returns a count of 1 or 2
C14_NumBinsReturnsBelowTwoSamples ==
    NumBinsEnded /\ args.n_samples < 2
        /\ (args.corr = None \/ args.corr[1] * args.corr[1] < CorrDen * CorrDen) =>
            pc = "done" /\ err = "" /\ locals.bins \in {1, 2}

\* on 2 samples or more the count is above 0 unless corr is 1 or -1
C14_PositiveAwayFromUnitCorr ==
    NumBinsEnded /\ args.n_samples >= 2
        /\ (args.corr = None \/ args.corr[1] * args.corr[1] < CorrDen * CorrDen) =>
            pc = "done" /\ locals.bins > 0

UnivariateEnded == NumBinsEnded /\ args.corr = None /\ args.n_samples >= 2

\* C15: the univariate rule is strictly increasing from 2 samples on:
\* numBins(n + 1, None) > numBins(n, None).
C15_UnivariateStrictlyIncreasing ==
    UnivariateEnded => UnivariateBins(args.n_samples + 1) > locals.bins

\* C15, amended: the univariate rule is non-decreasing from 2 samples on,
\* numBins(n + 1, None) >= numBins(n, None), and not strictly increasing:
\* 2 and 3 samples give the same count, 3 and 4 samples do not.
C15_UnivariateNonDecreasing ==
    UnivariateEnded =>
        /\ UnivariateBins(args.n_samples + 1) >= locals.bins
        /\ args.n_samples = 2 => UnivariateBins(3) = locals.bins
        /\ args.n_samples = 3 => UnivariateBins(4) > locals.bins

\* C15's case: the univariate rule has been applied to 2 samples
C15_Witness == UnivariateEnded /\ args.n_samples = 2 /\ pc = "done"

\* and to 3 samples, after which the count goes up
C15_WitnessStep == UnivariateEnded /\ args.n_samples = 3 /\ locals.bins = 2

-----------------------------------------------------------------------------
(* the entries of mutual_info_matrix and var_info_matrix *)

\* codep_dist has called mutual_info_matrix and var_info_matrix on returns
InfoMatricesBuilt ==
    codependence = "mutual_info" /\ pc \in {"return", "done"}

NonNegNumber(v) == IsNum(v) /\ v[2] >= 0

\* C16: for every finite input matrix, a constant column or a column that
\* falls into a single bin included, every entry of the matrices
\* mutual_info_matrix and var_info_matrix return is a number >= 0.
C16_InfoEntriesNonNegative ==
    InfoMatricesBuilt =>
        \A a, b \in Assets :
            NonNegNumber(codep[a][b]) /\ NonNegNumber(dist[a][b])

\* the entries are numbers >= 0 when no column falls into a single bin:
\* 2 bins or more and no constant column
C16_HoldsWhenColumnsSpread ==
    InfoMatricesBuilt /\ bins_info >= 2 /\ NoConstantColumn =>
        \A a, b \in Assets :
            NonNegNumber(codep[a][b]) /\ NonNegNumber(dist[a][b])

-----------------------------------------------------------------------------
(* ltdi_matrix with alpha = 0 *)

\* codep_dist has called ltdi_matrix(returns, alpha_tail)
LtdiBuilt ==
    codependence = "tail" /\ pc \in {"return", "done"}
        /\ called = <<"ltdi_matrix">>

\* C17: with alpha = 0, k = ceil(n_samples * alpha) is 0, no threshold is
\* read and no count is made: every entry of the matrix ltdi_matrix returns
\* is exactly 1, whatever X is.
C17_LtdiAllOnesAtAlphaZero ==
    LtdiBuilt /\ alpha_tail = 0 =>
        /\ TailK(Len(returns), alpha_tail) = 0
        /\ \A a, b \in Assets : codep[a][b] = E8(OneE8)

\* C17's case: ltdi_matrix was called with alpha = 0 on returns whose
\* lowest samples of the two columns are different samples, for which a
\* count over a tail of one sample would be 0
C17_Witness ==
    LtdiBuilt /\ alpha_tail = 0
        /\ returns[1][0] < returns[2][0] /\ returns[1][1] > returns[2][1]
        /\ Len(returns) = 2

-----------------------------------------------------------------------------
(* the arguments of the operations, before and after *)

\* every operation of the core, called on its own; the selectors with the
\* largest max_k and codep_dist on the returns below the largest size
InitCore ==
    \/ InitCluster /\ max_k = MaxK
    \/ InitCodep /\ Len(returns) < MaxSamples
    \/ InitDenoise

NextCore == NextCluster \/ NextCodep \/ NextDenoise

SpecCore == InitCore /\ [][NextCore]_vars

\* the eigenvalue and eigenvector arrays are arguments in these steps
EigenArraysPassed == pc \in {"denoisedCorr", "shrinkCorr", "detone"}

\* C18: no step of codep_dist, of the matrix builders it calls, of
\* denoiseCov, denoisedCorr and shrinkCorr, or of the two selectors changes
\* an argument: the returns matrix, the covariance matrix, the eigenvalue
\* and eigenvector arrays and the linkage hold after the step what they
\* held before it.
C18_ArgumentsNotMutated ==
    [][/\ returns' = returns
       /\ custom_cov # <<>> => custom_cov' = custom_cov
       /\ n_assets' = n_assets
       /\ clustering' = clustering
       /\ EigenArraysPassed => eVal' = eVal /\ eVec' = eVec]_vars

\* C18's case: denoisedCorr has replaced eigenvalues of its own array and
\* returned, a selector has relabelled the levels of a non-monotonic linkage
\* and returned, codep_dist has returned
C18_Witness ==
    entry = "denoisedCorr" /\ pc = "done" /\ kind = "fixed"
        /\ nFacts < Len(eVal) /\ eVal_ # <<eVal, 1>>

C18_WitnessSelector ==
    method = "gap" /\ pc = "done" /\ ~flag /\ clustering # <<>>

C18_WitnessCodep ==
    codependence = "custom_cov" /\ pc = "done" /\ custom_cov # <<>>

-----------------------------------------------------------------------------
(* getPCA: the order of the eigenvalues and of the eigenvector columns *)

\* getPCA has returned to denoiseCov
GetPCAReturned ==
    entry = "denoiseCov" /\ pc \notin {"denoiseCov", "getPCA"}

\* C19: the eigenvalues getPCA returns are in non-increasing order, and the
\* eigenvector columns are permuted as the eigenvalues are: column i of the
\* returned eVec is the eigenvector eigh paired with the i-th returned
\* eigenvalue.
C19_GetPCADescendingAndPaired ==
    GetPCAReturned =>
        /\ Len(eVal) = Len(eigh_w) /\ Len(eVec) = Len(eigh_w)
        /\ \A i, m \in 1..Len(eVal) : i < m => eVal[i] >= eVal[m]
        /\ {eVec[i] : i \in 1..Len(eVec)} = 1..Len(eigh_w)
        /\ \A i \in 1..Len(eVal) : eVal[i] = eigh_w[eVec[i]]

\* C19's case: getPCA has reordered three eigenvalues that are not all equal
C19_Witness ==
    GetPCAReturned /\ Len(eigh_w) = 3 /\ eigh_w[1] < eigh_w[2]
        /\ eigh_w[2] = eigh_w[3] /\ eVec[1] # 1

-----------------------------------------------------------------------------
(* the level two_diff_gap_stat reports and the second differences of W *)

\* two_diff_gap_stat has chosen a level
GapSelected ==
    method = "gap" /\ pc \notin {"call", "levels", "error"} /\ k_index >= 0

\* W(k+1) + W(k-1) - 2 W(k) for the k of the computed level c (from 1):
\* the second difference of W_list centred on c
SecondDiffAt(W, c) == GapOf(W[c - 1], W[c], W[c + 1])

\* the computed levels a second difference can be centred on
Centres(W) == 2..(Len(W) - 1)

\* C20: the cluster count two_diff_gap_stat chooses is the one at the centre
\* of the largest second difference W(k+1) + W(k-1) - 2 W(k) over the
\* computed levels, W(1) being -infinity.
C20_GapReportsCentreOfMaxSecondDiff ==
    GapSelected =>
        /\ k_index + 1 \in Centres(stat_list)
        /\ \A c \in Centres(stat_list) :
             ~FLess(SecondDiffAt(stat_list, k_index + 1),
                    SecondDiffAt(stat_list, c))

\* what the code reports: the level before the centre of the largest second
\* difference (the first of the largest ones), that is the count cluster_k
\* has one place before the centre
C20_GapReportsLevelBeforeCentre ==
    GapSelected =>
        /\ k_index + 2 \in Centres(stat_list)
        /\ \A c \in Centres(stat_list) :
             /\ ~FLess(SecondDiffAt(stat_list, k_index + 2),
                       SecondDiffAt(stat_list, c))
             /\ c < k_index + 2 =>
                  FLess(SecondDiffAt(stat_list, c),
                        SecondDiffAt(stat_list, k_index + 2))
        /\ ChosenK = cluster_k[k_index + 1]
        /\ flag => k = cluster_k[k_index + 1]

-----------------------------------------------------------------------------
(* the level loop: which levels get a statistic *)

\* the loop over the levels has run
LevelLoopDone ==
    method \in {"gap", "silhouette"} /\ pc \notin {"call", "levels"}
        /\ cluster_k # <<>>

\* the slack of the selector called
SlackOf == IF method = "gap" THEN 2 ELSE 0

\* kk <= min(max_k, sqrt(n)) + slack
WithinLimit(kk) ==
    /\ kk - SlackOf <= max_k
    /\ kk - SlackOf <= 0 \/ (kk - SlackOf) * (kk - SlackOf) <= n_assets

\* C21: the level loop gives a statistic only to levels whose cluster count
\* is within min(max_k, sqrt(n)) + 2 (gap) or min(max_k, sqrt(n))
\* (silhouette); a level of one cluster gets -infinity; after the first
\* level over the limit no level is evaluated, so the statistics are those
\* of a prefix of the levels; the winning index is an index of that prefix.
C21_StatisticsArePrefixWithinLimit ==
    LevelLoopDone =>
        /\ Len(stat_list) <= Len(cluster_k)
        /\ \A i \in 1..Len(stat_list) :
             /\ cluster_k[i] = 1 => stat_list[i] = NegInf
             /\ cluster_k[i] # 1 => WithinLimit(cluster_k[i])
        /\ Len(stat_list) < Len(cluster_k) =>
             ~WithinLimit(cluster_k[Len(stat_list) + 1])
        /\ pc # "error" => k_index \in 0..(Len(stat_list) - 1)

\* C21's case: the loop has stopped at a level over the limit with levels
\* left, under each selector, and a level was chosen
C21_Witness ==
    LevelLoopDone /\ method = "gap" /\ pc = "done"
        /\ Len(stat_list) < Len(cluster_k) /\ Len(stat_list) >= 3

C21_WitnessSilhouette ==
    LevelLoopDone /\ method = "silhouette" /\ pc = "done"
        /\ Len(stat_list) = 2 /\ Len(cluster_k) = 4 /\ k_index = 1

-----------------------------------------------------------------------------
(* the diagonal of ltdi_matrix and of the tail distance *)

\* C22: when 0 < k = ceil(n_samples * alpha) <= n_samples, every entry of
\* the diagonal of ltdi_matrix(X, alpha) is exactly 1, ties in a column
\* included, and the diagonal of the distance -log(codep) that codep_dist
\* returns for 'tail' is zero.
C22_TailDiagonalIsOne ==
    LtdiBuilt /\ TailK(Len(returns), alpha_tail) > 0
        /\ TailK(Len(returns), alpha_tail) <= Len(returns) =>
            \A a \in Assets :
                /\ codep[a][a] = E8(OneE8)
                /\ dist[a][a] = NegLog(OneE8)
                /\ IsZeroDist(dist[a][a])

\* C22's case: a tail of 2 of 3 samples, the samples of each column tied at
\* its threshold, and an entry off the diagonal below 1
C22_Witness ==
    LtdiBuilt /\ Len(returns) = 3 /\ TailK(Len(returns), alpha_tail) = 2
        /\ returns[1][0] = returns[2][0] /\ returns[2][0] < returns[3][0]
        /\ returns[1][1] > returns[2][1] /\ returns[2][1] = returns[3][1]
        /\ codep[0][1] # E8(OneE8)

-----------------------------------------------------------------------------
\* mutual_info_matrix or var_info_matrix with bins_info = "HGR" has ended
HGREnded ==
    /\ fn \in {"mutual_info_matrix", "var_info_matrix"}
    /\ pc \in {"done", "error"}

\* the call i of numBins got a corr whose square is 1
UnitCorrPassed(i) ==
    /\ Len(called[i][3]) = 1
    /\ ~IsNaN(called[i][3][1])
    /\ called[i][3][1][3] = called[i][3][1][4]

\* C23: with bins_info = "HGR" no pair of columns, the diagonal pairs and the
\* perfectly negatively correlated ones included, has the bivariate formula
\* of numBins evaluated with a correlation of absolute value 1, so that no
\* division by 1 - corr**2 = 0 takes place
C23_BivariateNeverAtUnitCorr ==
    HGREnded => \A i \in 1..Len(called) : ~UnitCorrPassed(i)

\* a pair of columns with corr == 1 (a diagonal pair among them) gets the
\* univariate rule
C23_UnivariateAtPlusOne ==
    HGREnded =>
        \A i \in 1..Len(called) :
            IsOne(CorrCoef(Column(args.X, TriuIndices[i][1]),
                           Column(args.X, TriuIndices[i][2])))
                => called[i][3] = None

\* all pairs got finite bins, one of them from the bivariate formula
C23_WitnessBivariate ==
    /\ HGREnded
    /\ pc = "done"
    /\ Len(called[2][3]) = 1
    /\ locals.bins[1] = UnivariateBins(Len(args.X))

-----------------------------------------------------------------------------
\* denoiseCov was called with a kind that names none of the policies
NoPolicyKind == entry = "denoiseCov" /\ kind \notin Policies

\* the correlation corr2cov gets when no policy ran: that of the input
\* covariance, less the market component when detone is set
UndenoisedCorr ==
    IF detone
    THEN MatSub(Cov2CorrOf(InputCov),
                DotDiagDot(Slice(eVec, 1, Min({mkt_comp, Len(eVal)})),
                           Slice(eVal, 1, Min({mkt_comp, Len(eVal)})), 1))
    ELSE Cov2CorrOf(InputCov)

\* C24: denoiseCov with a kind outside fixed, spectral and shrink raises no
\* error and runs neither denoisedCorr nor shrinkCorr; the covariance it
\* returns is corr2cov of the correlation of the input covariance, after
\* the optional detoning, with the standard deviations of the input
C24_UnknownKindSkipsDenoising ==
    NoPolicyKind =>
        /\ err = ""
        /\ pc # "error"
        /\ \A i \in 1..Len(called) :
               called[i] \notin {"denoisedCorr", "shrinkCorr"}
        /\ pc = "done" => cov_ = Corr2CovOf(UndenoisedCorr, StdOfCov)

\* a call with such a kind and detone set has returned
C24_Witness ==
    /\ NoPolicyKind
    /\ pc = "done"
    /\ detone
    /\ called = <<"cov2corr", "getPCA", "findMaxEval", "detone", "corr2cov">>

\* the same without detoning
C24_WitnessNoDetone ==
    /\ NoPolicyKind
    /\ pc = "done"
    /\ ~detone
    /\ cov_ = Corr2CovOf(Cov2CorrOf(InputCov), StdOfCov)

====
